---------------------------- MODULE Spec2Model ----------------------------
(***************************************************************************)
(* ItsBreakTime: the renderer's TimerService (work/break countdown), the   *)
(* main process' overlay fleet (one BrowserWindow per display) and the     *)
(* meeting gate that postpones a break.                                    *)
(*                                                                         *)
(* Several specifications share the module, one per part of the program:   *)
(*   Spec         TimerService  (src/src/renderer/services/storageService.ts)*)
(*   OverlaySpec  overlay fleet, synchronous revision (src/unnamed/part_001) *)
(*   GateSpec     meeting gate and asynchronous overlay start              *)
(*                (src/unnamed/part_000, lines 981-1793)                   *)
(*   PhaseSpec    TimerService started at the beginning of either phase    *)
(*   DetectorSpec isInMeeting on window titles and process names           *)
(*   PendingSpec  the meeting gate's recheck under fair scheduling         *)
(* Each leaves the variables of the other parts unchanged.  The overlay    *)
(* fleet of part_000 uses the variables of part_001 that it also declares  *)
(* (breakOverlayWindows, breakBroadcastInterval, ...); its definitions     *)
(* carry the prefix Async where part_001 has one of the same name.         *)
(***************************************************************************)
EXTENDS Integers, Sequences, FiniteSets, TLC

(***************************************************************************)
(* Bounds of the model.                                                    *)
(***************************************************************************)
MaxWorkDuration == 1
MaxBreakDuration == 2
MaxLeaked == 1
MaxPendingStarts == 1
\* totalBreaksTaken has no ceiling in the code; the model stops at this many skips
MaxBreaksTaken == 2
\* the settings' longBreakInterval; longBreakDuration is one more than the
\* longest breakDuration
MaxLongBreakInterval == 1

\* connected displays; overlay windows the model keeps at one time
MaxDisplays == 3
MaxWindows == MaxDisplays + 1
\* the clock advances ClockStepMs at a time, up to MaxClockSteps times
ClockStepMs == 500
MaxClockSteps == 4
\* messages from the renderer and display changes the main process receives
MaxEvents == 2
\* hideBreakOverlay callbacks (setTimeout, 100 ms) waiting at one time
MaxPendingHides == 1
\* width and height of a display: displays sit side by side or stacked
DisplayWidth == 1920
DisplayHeight == 1080

\* showBreakOverlay calls, and checkAndShowPendingBreak calls, waiting for
\* isInMeeting() at one time; scheduled 30 s rechecks
MaxCalls == 2
MaxRecheckTimers == 2
\* executeJavaScript requests the renderer has not answered yet
MaxInFlight == 2
\* did-finish-load listeners and settle timers one window holds
MaxListeners == 1

\* settings.workDuration is in minutes and is multiplied by 60 (seconds).
SecondsPerMinute == 60
\* Date.now() is in milliseconds
MsPerSecond == 1000
\* display-removed keeps a window whose x is less than this from a display's x
XTolerance == 100

VARIABLES
  \* ---- TimerService -------------------------------------------------
  timerState,       \* the timerState store: isRunning, isOnBreak, timeRemaining,
                    \* cycleCount, totalBreaksTaken
  timerSettings,    \* the timerSettings store: workDuration, breakDuration,
                    \* longBreakDuration, longBreakInterval
  intervalActive,   \* the interval this.intervalId refers to is still scheduled
  leakedIntervals,  \* scheduled intervals this.intervalId no longer refers to
  pendingStarts,    \* setTimeout(() => this.start(), 500) callbacks not yet run
  timerOp,          \* the operation that ran last
  runTicks,         \* history: ticks since start() from a fresh work phase, -1 if none
  runCycle0,        \* history: cycleCount when that start() ran
  stateBefore       \* history: the timerState the last operation was called in

timerVars == <<timerState, timerSettings, intervalActive, leakedIntervals,
               pendingStarts, timerOp, runTicks, runCycle0, stateBefore>>

VARIABLES
  \* ---- overlay fleet (main process) ---------------------------------
  displays,              \* screen.getAllDisplays(): the bounds of each display
  breakOverlayWindows,   \* the fleet: the overlay windows, in array order
  orphans,               \* windows being closed that the array no longer holds
  isBreakActive,
  currentBreakDuration,
  breakStartTime,        \* Date.now() at showBreakOverlay, 0 when no break
  breakBroadcastInterval,\* the 100 ms interval is set (not null)
  staleBroadcastIntervals, \* 100 ms intervals still set that the variable no longer refers to
  pendingHides,          \* setTimeout(hideBreakOverlay, 100) callbacks not yet run
  now,                   \* Date.now()
  sent,                  \* the messages the last handler sent: channel, receiver, value
  isQuitting,            \* app.isQuitting
  events,                \* messages and display changes received so far
  overlayOp              \* the handler that ran last

overlayVars == <<displays, breakOverlayWindows, orphans, isBreakActive,
                 currentBreakDuration, breakStartTime, breakBroadcastInterval,
                 staleBroadcastIntervals, pendingHides, now, sent, isQuitting,
                 events, overlayOp>>

VARIABLES
  \* ---- meeting gate and renderer bridge (part_000, third revision) ----
  skipBreaksDuringMeetings, \* store.get('skipBreaksDuringMeetings') ?? true
  meeting,                  \* what isInMeeting() resolves to at this moment
  pendingBreakDuration,     \* <<>> for null, <<d>> for a postponed break of d
  showCalls,                \* showBreakOverlay calls waiting at await isInMeeting()
  recheckTimers,            \* setTimeout(checkAndShowPendingBreak, 30000) not yet run
  recheckCalls,             \* checkAndShowPendingBreak calls waiting at await isInMeeting()
  breakTimer,               \* the renderer's breakTimerManager: active, remaining
  jsQueue,                  \* executeJavaScript requests not yet answered, oldest first
  strayTimers               \* setTimeout callbacks of showBreakOverlay whose window is closed and out of the array

gateVars == <<skipBreaksDuringMeetings, meeting, pendingBreakDuration,
              showCalls, recheckTimers, recheckCalls, breakTimer, jsQueue,
              strayTimers>>

VARIABLES
  \* ---- meeting detection (part_000, isInMeeting) ---------------------
  detectorQuery,    \* what the system answers to one isInMeeting() call:
                    \* platform, screen access, the osascript results
  detectorResult    \* <<>>, or <<b>> once isInMeeting() has resolved to b

detectorVars == <<detectorQuery, detectorResult>>

vars == <<timerVars, overlayVars, gateVars, detectorVars>>

\* What an action of one part leaves alone.
notTimerVars == <<overlayVars, gateVars, detectorVars>>
notOverlayVars == <<timerVars, gateVars, detectorVars>>
notGateVars == <<timerVars, isBreakActive, currentBreakDuration,
                 breakStartTime, staleBroadcastIntervals, now, detectorVars>>
notDetectorVars == <<timerVars, overlayVars, gateVars>>

\* The result of an exec() of osascript: it fails, or it prints stdout.
ExecFailed == [ok |-> FALSE, stdout |-> ""]
ExecPrinted(out) == [ok |-> TRUE, stdout |-> out]

\* Meeting detection while another part is looked at alone: isInMeeting()
\* has not been called.
DetectorIdle ==
  /\ detectorQuery = [platform |-> "darwin", screenAccess |-> "granted",
                      app |-> ExecFailed, title |-> ExecFailed]
  /\ detectorResult = <<>>

(***************************************************************************)
(* TimerService                                                            *)
(***************************************************************************)
WorkSeconds(settings) == settings.workDuration * SecondsPerMinute

\* The state a fresh TimerState store holds: work phase, not running, a full
\* work period remaining, no cycles, no breaks.
InitialTimerState(settings) ==
  [isRunning |-> FALSE, isOnBreak |-> FALSE,
   timeRemaining |-> WorkSeconds(settings),
   cycleCount |-> 0, totalBreaksTaken |-> 0]

TimerInit ==
  /\ timerSettings \in [workDuration : 1..MaxWorkDuration,
                        breakDuration : 1..MaxBreakDuration,
                        longBreakDuration : {MaxBreakDuration + 1},
                        longBreakInterval : 1..MaxLongBreakInterval]
  /\ timerState = InitialTimerState(timerSettings)
  /\ intervalActive = FALSE
  /\ leakedIntervals = 0
  /\ pendingStarts = 0
  /\ timerOp = "init"
  /\ runTicks = -1
  /\ runCycle0 = 0
  /\ stateBefore = timerState

\* A start() from exactly the fresh work phase with one countdown: the run
\* whose ticks runTicks counts.
FreshWorkPhase ==
  /\ ~timerState.isOnBreak
  /\ ~timerState.isRunning
  /\ timerState.timeRemaining = WorkSeconds(timerSettings)
  /\ ~intervalActive
  /\ leakedIntervals = 0
  /\ pendingStarts = 0

NoRun == /\ runTicks' = -1
         /\ runCycle0' = 0

\* start() without its early return: it sets an interval whether or not the
\* timer is running.
StartEffectAlways ==
  /\ timerState' = [timerState EXCEPT !.isRunning = TRUE]
  /\ intervalActive' = TRUE
  /\ leakedIntervals' = IF intervalActive THEN leakedIntervals + 1
                                          ELSE leakedIntervals

\* start(): the body after the isRunning early return.
StartEffect ==
  IF timerState.isRunning
    THEN UNCHANGED <<timerState, intervalActive, leakedIntervals>>
    ELSE /\ timerState' = [timerState EXCEPT !.isRunning = TRUE]
         /\ intervalActive' = TRUE
         \* setInterval overwrites this.intervalId; an interval still scheduled
         \* under the old id can no longer be cleared
         /\ leakedIntervals' = IF intervalActive THEN leakedIntervals + 1
                                                 ELSE leakedIntervals

StartBounded ==
  timerState.isRunning \/ ~intervalActive \/ leakedIntervals < MaxLeaked

Start ==
  /\ StartBounded
  /\ StartEffect
  /\ IF FreshWorkPhase
       THEN /\ runTicks' = 0
            /\ runCycle0' = timerState.cycleCount
       ELSE NoRun
  /\ timerOp' = "start"
  /\ stateBefore' = timerState
  /\ UNCHANGED notTimerVars
  /\ UNCHANGED <<timerSettings, pendingStarts>>

\* The callback of setTimeout(() => this.start(), 500).
DelayedStart ==
  /\ pendingStarts > 0
  /\ StartBounded
  /\ StartEffect
  /\ pendingStarts' = pendingStarts - 1
  /\ NoRun
  /\ timerOp' = "delayedStart"
  /\ stateBefore' = timerState
  /\ UNCHANGED notTimerVars
  /\ UNCHANGED timerSettings

\* pause(): isRunning := false, clearInterval(this.intervalId).
PausedState(s) == [s EXCEPT !.isRunning = FALSE]

Pause ==
  /\ timerState' = PausedState(timerState)
  /\ intervalActive' = FALSE
  /\ NoRun
  /\ timerOp' = "pause"
  /\ stateBefore' = timerState
  /\ UNCHANGED notTimerVars
  /\ UNCHANGED <<timerSettings, leakedIntervals, pendingStarts>>

\* The fallback of ipcMain.on('timer:complete') for a stored breakDuration
\* that is missing or 0
DefaultBreakDuration == 20

\* ipcMain.on('timer:complete'): the duration handed to showBreakOverlay,
\* store.get('timerSettings')?.breakDuration || 20.
TimerCompleteDuration(settings) ==
  IF settings.breakDuration # 0 THEN settings.breakDuration
                                ELSE DefaultBreakDuration

\* reset(): pause(), then timeRemaining := the current phase's duration.
PhaseDuration(onBreak, settings) ==
  IF onBreak THEN settings.breakDuration ELSE WorkSeconds(settings)

ResetState(s, settings) ==
  [PausedState(s) EXCEPT !.timeRemaining = PhaseDuration(s.isOnBreak, settings),
                         !.isRunning = FALSE]

Reset ==
  /\ timerState' = ResetState(timerState, timerSettings)
  /\ intervalActive' = FALSE
  /\ NoRun
  /\ timerOp' = "reset"
  /\ stateBefore' = timerState
  /\ UNCHANGED notTimerVars
  /\ UNCHANGED <<timerSettings, leakedIntervals, pendingStarts>>

\* handleTimerComplete() with a long break every longBreakInterval-th cycle,
\* as the settings' fields suggest and the code does not do.
HandleTimerCompleteStateLongBreak(s, settings) ==
  LET wasOnBreak == s.isOnBreak
      nextIsOnBreak == ~wasOnBreak
      newCycleCount == IF wasOnBreak THEN s.cycleCount ELSE s.cycleCount + 1
      newDuration ==
        IF nextIsOnBreak
          THEN IF newCycleCount % settings.longBreakInterval = 0
                 THEN settings.longBreakDuration
                 ELSE settings.breakDuration
          ELSE WorkSeconds(settings)
  IN [PausedState(s) EXCEPT
        !.isRunning = FALSE,
        !.isOnBreak = nextIsOnBreak,
        !.timeRemaining = newDuration,
        !.cycleCount = newCycleCount,
        !.totalBreaksTaken = IF wasOnBreak THEN s.totalBreaksTaken + 1
                                           ELSE s.totalBreaksTaken]

\* handleTimerComplete(): the value it writes to the store.  The new phase's
\* duration is settings.breakDuration or settings.workDuration * 60; no
\* other field of the settings is read.
HandleTimerCompleteState(s, settings) ==
  LET wasOnBreak == s.isOnBreak
      nextIsOnBreak == ~wasOnBreak
  IN [PausedState(s) EXCEPT
        !.isRunning = FALSE,
        !.isOnBreak = nextIsOnBreak,
        !.timeRemaining = PhaseDuration(nextIsOnBreak, settings),
        !.cycleCount = IF wasOnBreak THEN s.cycleCount ELSE s.cycleCount + 1,
        !.totalBreaksTaken = IF wasOnBreak THEN s.totalBreaksTaken + 1
                                           ELSE s.totalBreaksTaken]

\* TickCallback with the comparison off by one: it also counts down at zero.
TickCallbackAtZero(state, settings) ==
  IF state.timeRemaining >= 0
    THEN [state EXCEPT !.timeRemaining = state.timeRemaining - 1]
    ELSE state

\* The tick's update callback: the value it returns for the state it was
\* given.  With time left it returns the state one second on.  At zero it
\* calls handleTimerComplete() and then returns the state it was given:
\* timerState.update stores the callback's return value, so that value
\* replaces what handleTimerComplete() wrote to the store during the call.
TickCallback(state, settings) ==
  IF state.timeRemaining > 0
    THEN [state EXCEPT !.timeRemaining = state.timeRemaining - 1]
    ELSE LET written == HandleTimerCompleteState(state, settings)
         IN state

\* One firing of a countdown interval: the one this.intervalId refers to
\* (leaked = FALSE) or one it no longer refers to (leaked = TRUE).
Tick(leaked) ==
  /\ IF leaked THEN leakedIntervals > 0 ELSE intervalActive
  /\ timerState' = TickCallback(timerState, timerSettings)
  /\ IF timerState.timeRemaining > 0
       THEN /\ UNCHANGED <<intervalActive, pendingStarts>>
            /\ timerOp' = "tick"
       ELSE \* handleTimerComplete(): pause() clears this.intervalId, the
            \* timer:complete message is sent, and a completion into the
            \* work phase schedules start() after 500 ms
            /\ timerState.isOnBreak => pendingStarts < MaxPendingStarts
            /\ intervalActive' = FALSE
            /\ pendingStarts' = IF timerState.isOnBreak THEN pendingStarts + 1
                                                        ELSE pendingStarts
            /\ timerOp' = IF timerState.isOnBreak THEN "completeToWork"
                                                  ELSE "completeToBreak"
  /\ IF runTicks >= 0 /\ ~leaked
       THEN /\ runTicks' = runTicks + 1
            /\ runCycle0' = runCycle0
       ELSE NoRun
  /\ stateBefore' = timerState
  /\ UNCHANGED <<timerSettings, leakedIntervals>>
  /\ UNCHANGED notTimerVars

\* skipBreak() as the earlier revision has it (timerService.ts:74-81): the
\* break is not counted and isRunning is left as it is.
SkipBreakStateUncounted(s, settings) ==
  [s EXCEPT !.isOnBreak = FALSE,
            !.timeRemaining = WorkSeconds(settings)]

\* skipBreak()
SkipBreakState(s, settings) ==
  [s EXCEPT !.isOnBreak = FALSE,
            !.isRunning = FALSE,
            !.timeRemaining = WorkSeconds(settings),
            !.totalBreaksTaken = s.totalBreaksTaken + 1]

SkipBreak ==
  /\ pendingStarts < MaxPendingStarts
  /\ timerState.totalBreaksTaken < MaxBreaksTaken
  /\ timerState' = SkipBreakState(timerState, timerSettings)
  /\ pendingStarts' = pendingStarts + 1
  /\ NoRun
  /\ timerOp' = "skipBreak"
  /\ stateBefore' = timerState
  /\ UNCHANGED notTimerVars
  /\ UNCHANGED <<timerSettings, intervalActive, leakedIntervals>>

\* snoozeBreak() counting the break as skipBreak() does.
SnoozeBreakStateCounted(s, settings) == SkipBreakState(s, settings)

\* snoozeBreak()
SnoozeBreakState(s, settings) ==
  [s EXCEPT !.timeRemaining = WorkSeconds(settings),
            !.isOnBreak = FALSE,
            !.isRunning = FALSE]

SnoozeBreak ==
  /\ pendingStarts < MaxPendingStarts
  /\ timerState' = SnoozeBreakState(timerState, timerSettings)
  /\ pendingStarts' = pendingStarts + 1
  /\ NoRun
  /\ timerOp' = "snoozeBreak"
  /\ stateBefore' = timerState
  /\ UNCHANGED notTimerVars
  /\ UNCHANGED <<timerSettings, intervalActive, leakedIntervals>>

(***************************************************************************)
(* Overlay fleet, src/unnamed/part_001                                     *)
(***************************************************************************)
\* The main window, as the receiver of a message.
MainWindow == 0

\* The break durations (seconds) the timer:complete handler reads from the
\* store.
OverlayDurations == {1}

\* Where a display's origin can be: the primary display, one to its right,
\* one below it.
Positions == {[x |-> 0, y |-> 0],
              [x |-> DisplayWidth, y |-> 0],
              [x |-> 0, y |-> DisplayHeight]}

\* The origin of the primary display.
Origin == [x |-> 0, y |-> 0]

Max(a, b) == IF a >= b THEN a ELSE b
Abs(a) == IF a >= 0 THEN a ELSE -a
Range(f) == {f[i] : i \in DOMAIN f}

\* new BrowserWindow({x, y, width, height, show: false, ...}) followed by
\* loadURL / loadFile: the window exists, is hidden and is loading.
\*   status: "open", "closing" (close() was called, 'closed' not yet emitted)
\*           or "destroyed"
\*   closedHandler: once('closed') that splices the window out of the fleet
\*   readyHandler: once('ready-to-show') that shows the window
\*   startListeners: once('did-finish-load') handlers that send break:start
NewWindow(b, withClosedHandler) ==
  [status |-> "open", bounds |-> b, loading |-> TRUE, visible |-> FALSE,
   closedHandler |-> withClosedHandler, readyHandler |-> FALSE,
   startListeners |-> 0]

IsDestroyed(w) == w.status = "destroyed"

\* What is left of a window once it is destroyed: its place in the array.
Destroyed(w) ==
  [status |-> "destroyed", bounds |-> w.bounds, loading |-> FALSE,
   visible |-> FALSE, closedHandler |-> FALSE, readyHandler |-> FALSE,
   startListeners |-> 0]

\* The windows of a fleet that are not destroyed.
Live(fleet) == SelectSeq(fleet, LAMBDA w : ~IsDestroyed(w))

\* Windows the model keeps: those of the array, destroyed ones too, and those
\* closing outside it.
WindowCount == Len(breakOverlayWindows) + orphans

\* if (win.isFocused()) win.blur(); win.hide(); win.setFullScreen(false);
\* win.close()  -- for a window that is not destroyed
HideAndClose(w) ==
  IF IsDestroyed(w) THEN w
  ELSE [w EXCEPT !.visible = FALSE, !.status = "closing"]

\* getRemainingBreakTime() without Math.max(0, ...).
GetRemainingBreakTimeUnclamped(active, start, duration, t) ==
  IF ~active \/ start = 0 THEN duration
  ELSE duration - ((t - start) \div MsPerSecond)

\* getRemainingBreakTime()
GetRemainingBreakTime(active, start, duration, t) ==
  IF ~active \/ start = 0 THEN duration
  ELSE Max(0, duration - ((t - start) \div MsPerSecond))

Remaining ==
  GetRemainingBreakTime(isBreakActive, breakStartTime, currentBreakDuration, now)

Msg(chan, to, value) == [chan |-> chan, to |-> to, value |-> value]

\* createBreakOverlays making a window for the primary display only.
CreateBreakOverlaysPrimaryOnly(ds) == <<NewWindow(ds[1], TRUE)>>

\* createBreakOverlays(): closes what the fleet holds, empties it and makes
\* one window per display, in the order of the enumeration, at the display's
\* bounds, each with a 'closed' handler.
CreateBreakOverlays(ds) == [k \in DOMAIN ds |-> NewWindow(ds[k], TRUE)]

\* The forEach of showBreakOverlay on one window: a did-finish-load listener
\* is added (the model counts up to 2 of them) and the window is shown,
\* focused and made fullscreen.
ShowOne(w) ==
  [w EXCEPT !.startListeners = IF @ < 2 THEN @ + 1 ELSE @,
            !.visible = TRUE]

\* The index of the first destroyed window of a fleet, Len + 1 if none.
FirstDestroyed(fleet) ==
  IF \E k \in DOMAIN fleet : IsDestroyed(fleet[k])
    THEN CHOOSE k \in DOMAIN fleet :
           /\ IsDestroyed(fleet[k])
           /\ \A j \in DOMAIN fleet : IsDestroyed(fleet[j]) => k <= j
    ELSE Len(fleet) + 1

\* The fleet showBreakOverlay goes through: new windows when the array is
\* empty, the array as it is otherwise.
FleetToShow(fleet, ds) ==
  IF Len(fleet) = 0 THEN CreateBreakOverlays(ds) ELSE fleet

\* showBreakOverlay(duration) setting the interval without clearing the one
\* that is set.
ShowBreakOverlayKeepsInterval(duration) ==
  LET made == FleetToShow(breakOverlayWindows, displays)
      bad == FirstDestroyed(made)
      raises == bad <= Len(made)
  IN /\ Len(breakOverlayWindows) = 0 =>
          WindowCount + Len(displays) <= MaxWindows
     /\ isBreakActive' = TRUE
     /\ currentBreakDuration' = duration
     /\ breakStartTime' = now
     /\ breakOverlayWindows' =
          [k \in DOMAIN made |-> IF k < bad THEN ShowOne(made[k]) ELSE made[k]]
     /\ sent' = {Msg("break:start", k,
                     GetRemainingBreakTime(TRUE, now, duration, now)) :
                   k \in {j \in 1..(bad - 1) : ~made[j].loading}}
     /\ breakBroadcastInterval' = IF raises THEN breakBroadcastInterval ELSE TRUE
     /\ staleBroadcastIntervals' =
          IF ~raises /\ breakBroadcastInterval THEN staleBroadcastIntervals + 1
                                               ELSE staleBroadcastIntervals
     /\ overlayOp' = IF raises THEN "showRaised" ELSE "show"
     /\ UNCHANGED orphans

\* showBreakOverlay(duration).  overlayWindow.webContents of a destroyed
\* window raises: the forEach then stops at the first destroyed window of the
\* fleet and the rest of the function (the broadcast interval) does not run.
ShowBreakOverlay(duration) ==
  LET made == FleetToShow(breakOverlayWindows, displays)
      bad == FirstDestroyed(made)
      raises == bad <= Len(made)
  IN /\ Len(breakOverlayWindows) = 0 =>
          WindowCount + Len(displays) <= MaxWindows
     /\ isBreakActive' = TRUE
     /\ currentBreakDuration' = duration
     /\ breakStartTime' = now
     /\ breakOverlayWindows' =
          [k \in DOMAIN made |-> IF k < bad THEN ShowOne(made[k]) ELSE made[k]]
     /\ sent' = {Msg("break:start", k,
                     GetRemainingBreakTime(TRUE, now, duration, now)) :
                   k \in {j \in 1..(bad - 1) : ~made[j].loading}}
     \* if (breakBroadcastInterval) clearInterval(breakBroadcastInterval):
     \* an interval that is set is cleared before the new one is set
     /\ breakBroadcastInterval' = IF raises THEN breakBroadcastInterval ELSE TRUE
     /\ staleBroadcastIntervals' = staleBroadcastIntervals
     /\ overlayOp' = IF raises THEN "showRaised" ELSE "show"
     /\ UNCHANGED orphans

\* hideBreakOverlay emptying the array when no break is active.
HideBreakOverlayClearsAlways ==
  IF ~isBreakActive
    THEN /\ breakOverlayWindows' = <<>>
         /\ UNCHANGED <<isBreakActive, currentBreakDuration, breakStartTime,
                        breakBroadcastInterval>>
    ELSE /\ isBreakActive' = FALSE
         /\ currentBreakDuration' = 0
         /\ breakStartTime' = 0
         /\ breakBroadcastInterval' = FALSE
         /\ breakOverlayWindows' =
              [k \in DOMAIN breakOverlayWindows |->
                 HideAndClose(breakOverlayWindows[k])]

\* hideBreakOverlay(): nothing without a break; otherwise the break state is
\* reset, the interval cleared and every window that is not destroyed hidden
\* and closed.
HideBreakOverlay ==
  IF ~isBreakActive
    THEN UNCHANGED <<breakOverlayWindows, isBreakActive,
                     currentBreakDuration, breakStartTime,
                     breakBroadcastInterval>>
    ELSE /\ isBreakActive' = FALSE
         /\ currentBreakDuration' = 0
         /\ breakStartTime' = 0
         /\ breakBroadcastInterval' = FALSE
         /\ breakOverlayWindows' =
              [k \in DOMAIN breakOverlayWindows |->
                 HideAndClose(breakOverlayWindows[k])]

\* Every arrangement of 1 .. MaxDisplays displays, the primary display among
\* them; no window, no break.
OverlayInit ==
  /\ displays \in {ds \in UNION {[1..n -> Positions] : n \in 1..MaxDisplays} :
                     /\ \A i, j \in DOMAIN ds : i # j => ds[i] # ds[j]
                     /\ Origin \in Range(ds)}
  /\ breakOverlayWindows = <<>>
  /\ orphans = 0
  /\ isBreakActive = FALSE
  /\ currentBreakDuration = 0
  /\ breakStartTime = 0
  /\ breakBroadcastInterval = FALSE
  /\ staleBroadcastIntervals = 0
  /\ pendingHides = 0
  /\ now = ClockStepMs
  /\ sent = {}
  /\ isQuitting = FALSE
  /\ events = 0
  /\ overlayOp = "init"

\* The overlay fleet while the timer is looked at alone: one display, no
\* window, no break.
OverlayIdle ==
  /\ displays = <<Origin>>
  /\ breakOverlayWindows = <<>>
  /\ orphans = 0
  /\ isBreakActive = FALSE
  /\ currentBreakDuration = 0
  /\ breakStartTime = 0
  /\ breakBroadcastInterval = FALSE
  /\ staleBroadcastIntervals = 0
  /\ pendingHides = 0
  /\ now = ClockStepMs
  /\ sent = {}
  /\ isQuitting = FALSE
  /\ events = 0
  /\ overlayOp = "init"

\* ipcMain.on('timer:complete'): a break of the stored duration is shown, or
\* the overlay is hidden.
TimerComplete(isOnBreak, duration) ==
  /\ ~isQuitting
  /\ events < MaxEvents
  /\ events' = events + 1
  /\ IF isOnBreak
       THEN ShowBreakOverlay(duration)
       ELSE /\ HideBreakOverlay
            /\ overlayOp' = IF isBreakActive THEN "hide" ELSE "hideSkipped"
            /\ sent' = {}
            /\ UNCHANGED staleBroadcastIntervals
  /\ UNCHANGED <<displays, orphans, pendingHides, now, isQuitting>>
  /\ UNCHANGED notOverlayVars

\* break:skip / break:snooze forwarding break:skipped / break:snoozed to the
\* main window whether a break is active or not.
BreakSkipOrSnoozeForwardsAlways(channel) ==
  /\ ~isQuitting
  /\ events < MaxEvents
  /\ events' = events + 1
  /\ HideBreakOverlay
  /\ sent' = {Msg(channel, MainWindow, 0)}
  /\ overlayOp' = IF isBreakActive THEN "skipOrSnooze" ELSE "ignored"
  /\ UNCHANGED <<displays, orphans, pendingHides, now, isQuitting>>
  /\ UNCHANGED staleBroadcastIntervals
  /\ UNCHANGED notOverlayVars

\* ipcMain.on('break:skip') and ipcMain.on('break:snooze'): nothing without
\* a break; otherwise the overlay is hidden and break:skipped / break:snoozed
\* goes to the main window.
BreakSkipOrSnooze(channel) ==
  /\ ~isQuitting
  /\ events < MaxEvents
  /\ events' = events + 1
  /\ HideBreakOverlay
  /\ sent' = IF isBreakActive THEN {Msg(channel, MainWindow, 0)} ELSE {}
  /\ overlayOp' = IF isBreakActive THEN "skipOrSnooze" ELSE "ignored"
  /\ UNCHANGED <<displays, orphans, pendingHides, now, isQuitting>>
  /\ UNCHANGED staleBroadcastIntervals
  /\ UNCHANGED notOverlayVars

\* broadcastBreakTimer(), the callback of the 100 ms interval.
BroadcastBreakTimer ==
  /\ breakBroadcastInterval
  /\ Remaining <= 0 => pendingHides < MaxPendingHides
  /\ sent' = {Msg("break:timer-update", k, Remaining) :
                k \in {j \in DOMAIN breakOverlayWindows :
                         /\ ~IsDestroyed(breakOverlayWindows[j])
                         /\ ~breakOverlayWindows[j].loading}}
  /\ IF Remaining <= 0
       THEN /\ breakBroadcastInterval' = FALSE
            /\ pendingHides' = pendingHides + 1
       ELSE UNCHANGED <<breakBroadcastInterval, pendingHides>>
  /\ overlayOp' = "broadcast"
  /\ UNCHANGED <<displays, breakOverlayWindows, orphans, isBreakActive,
                 currentBreakDuration, breakStartTime, now, isQuitting>>
  /\ UNCHANGED events
  /\ UNCHANGED staleBroadcastIntervals
  /\ UNCHANGED notOverlayVars

\* The callback of setTimeout(() => hideBreakOverlay(), 100).
DelayedHide ==
  /\ pendingHides > 0
  /\ pendingHides' = pendingHides - 1
  /\ HideBreakOverlay
  /\ sent' = {}
  /\ overlayOp' = IF isBreakActive THEN "delayedHide" ELSE "delayedHideSkipped"
  /\ UNCHANGED <<displays, orphans, now, isQuitting>>
  /\ UNCHANGED events
  /\ UNCHANGED staleBroadcastIntervals
  /\ UNCHANGED notOverlayVars

\* What the once('did-finish-load') listeners of a window send when the load
\* finishes: each one break:start with the remaining time of that moment.
StartOnLoad(k, w, remaining) ==
  IF w.startListeners > 0 THEN {Msg("break:start", k, remaining)} ELSE {}

\* webContents 'did-finish-load' of the k-th window of the fleet.
DidFinishLoad(k) ==
  /\ k \in DOMAIN breakOverlayWindows
  /\ breakOverlayWindows[k].status \in {"open", "closing"}
  /\ breakOverlayWindows[k].loading
  /\ breakOverlayWindows' = [breakOverlayWindows EXCEPT ![k].loading = FALSE,
                                                        ![k].startListeners = 0]
  /\ sent' = StartOnLoad(k, breakOverlayWindows[k], Remaining)
  /\ overlayOp' = "didFinishLoad"
  /\ UNCHANGED <<displays, orphans, isBreakActive,
                 currentBreakDuration, breakStartTime, breakBroadcastInterval,
                 pendingHides, now, isQuitting>>
  /\ UNCHANGED events
  /\ UNCHANGED staleBroadcastIntervals
  /\ UNCHANGED notOverlayVars

\* 'ready-to-show' of the k-th window, for a window that listens to it:
\* show(), focus(), setFullScreen(true).
ReadyToShow(k) ==
  /\ k \in DOMAIN breakOverlayWindows
  /\ breakOverlayWindows[k].status \in {"open", "closing"}
  /\ breakOverlayWindows[k].readyHandler
  /\ breakOverlayWindows' = [breakOverlayWindows EXCEPT ![k].readyHandler = FALSE,
                                                        ![k].visible = TRUE]
  /\ sent' = {}
  /\ overlayOp' = "readyToShow"
  /\ UNCHANGED <<displays, orphans, isBreakActive,
                 currentBreakDuration, breakStartTime, breakBroadcastInterval,
                 pendingHides, now, isQuitting>>
  /\ UNCHANGED events
  /\ UNCHANGED staleBroadcastIntervals
  /\ UNCHANGED notOverlayVars

RemoveAt(seq, k) == SubSeq(seq, 1, k - 1) \o SubSeq(seq, k + 1, Len(seq))

\* The fleet after 'closed' of its k-th window: createBreakOverlays gave its
\* windows a handler that splices the window out (indexOf, splice); a window
\* without the handler stays in the array, destroyed.
FleetAfterClosed(fleet, k) ==
  IF fleet[k].closedHandler
    THEN RemoveAt(fleet, k)
    ELSE [fleet EXCEPT ![k] = Destroyed(fleet[k])]

\* The k-th window of the fleet, on which close() was called, is closed: it
\* is destroyed and 'closed' is emitted.
WindowClosed(k) ==
  /\ k \in DOMAIN breakOverlayWindows
  /\ breakOverlayWindows[k].status = "closing"
  /\ breakOverlayWindows' = FleetAfterClosed(breakOverlayWindows, k)
  /\ sent' = {}
  /\ overlayOp' = "closed"
  /\ UNCHANGED <<displays, orphans, isBreakActive, currentBreakDuration,
                 breakStartTime, breakBroadcastInterval, pendingHides, now,
                 isQuitting>>
  /\ UNCHANGED events
  /\ UNCHANGED staleBroadcastIntervals
  /\ UNCHANGED notOverlayVars

\* A closing window the array no longer holds is closed: its 'closed'
\* handler, if any, finds indexOf = -1 and does nothing.
OrphanClosed ==
  /\ orphans > 0
  /\ orphans' = orphans - 1
  /\ sent' = {}
  /\ overlayOp' = "orphanClosed"
  /\ UNCHANGED <<displays, breakOverlayWindows, isBreakActive,
                 currentBreakDuration, breakStartTime, breakBroadcastInterval,
                 pendingHides, now, isQuitting>>
  /\ UNCHANGED events
  /\ UNCHANGED staleBroadcastIntervals
  /\ UNCHANGED notOverlayVars

\* seq with e put in at index k (1 .. Len + 1).
InsertAt(seq, k, e) ==
  SubSeq(seq, 1, k - 1) \o <<e>> \o SubSeq(seq, k, Len(seq))

\* The window screen.on('display-added') makes: did-finish-load and
\* ready-to-show listeners, no 'closed' handler.
AddedWindow(b) ==
  [NewWindow(b, FALSE) EXCEPT !.startListeners = 1, !.readyHandler = TRUE]

\* display-added pushing a window whether or not a break is active.
FleetAfterAddedAlways(fleet, active, lastDisplay) ==
  Append(fleet, AddedWindow(lastDisplay))

\* The fleet after display-added: one window pushed during a break, none
\* otherwise.
FleetAfterAdded(fleet, active, lastDisplay) ==
  IF active THEN Append(fleet, AddedWindow(lastDisplay)) ELSE fleet

\* A display is connected at position pos, entry k of the new enumeration,
\* and screen.on('display-added') runs: during a break one window is made at
\* the bounds of the last display of the enumeration and pushed.
DisplayAdded(pos, k) ==
  /\ ~isQuitting
  /\ events < MaxEvents
  /\ events' = events + 1
  /\ Len(displays) < MaxDisplays
  /\ pos \notin Range(displays)
  /\ k \in 1..(Len(displays) + 1)
  /\ displays' = InsertAt(displays, k, pos)
  /\ isBreakActive => WindowCount < MaxWindows
  /\ breakOverlayWindows' =
       FleetAfterAdded(breakOverlayWindows, isBreakActive,
                       displays'[Len(displays')])
  /\ sent' = {}
  /\ overlayOp' = "displayAdded"
  /\ UNCHANGED <<orphans, isBreakActive, currentBreakDuration, breakStartTime,
                 breakBroadcastInterval, pendingHides, now, isQuitting>>
  /\ UNCHANGED staleBroadcastIntervals
  /\ UNCHANGED notOverlayVars

\* The test of display-removed's filter: some display's x is less than 100
\* from the window's x.
IsValid(bounds, ds) ==
  \E d \in Range(ds) : Abs(bounds.x - d.x) < XTolerance

\* The filter of display-removed: the windows that are not destroyed and
\* are valid.
KeptOnRemoval(fleet, ds) ==
  SelectSeq(fleet, LAMBDA w : ~IsDestroyed(w) /\ IsValid(w.bounds, ds))

\* Display k, not the primary one, is disconnected and
\* screen.on('display-removed') runs: during a
\* break the fleet keeps the windows that are not destroyed and are valid;
\* the others that are not destroyed are hidden and closed.
DisplayRemoved(k) ==
  /\ ~isQuitting
  /\ events < MaxEvents
  /\ events' = events + 1
  /\ Len(displays) > 1
  /\ k \in DOMAIN displays
  /\ displays[k] # Origin
  /\ displays' = RemoveAt(displays, k)
  /\ IF isBreakActive
       THEN /\ breakOverlayWindows' = KeptOnRemoval(breakOverlayWindows, displays')
            /\ orphans' = orphans + Len(Live(breakOverlayWindows))
                                  - Len(breakOverlayWindows')
       ELSE UNCHANGED <<breakOverlayWindows, orphans>>
  /\ sent' = {}
  /\ overlayOp' = "displayRemoved"
  /\ UNCHANGED <<isBreakActive, currentBreakDuration, breakStartTime,
                 breakBroadcastInterval, pendingHides, now, isQuitting>>
  /\ UNCHANGED staleBroadcastIntervals
  /\ UNCHANGED notOverlayVars

\* app.on('before-quit'): the interval is cleared, every window of the fleet
\* that is not destroyed is closed, the array is emptied.
BeforeQuit ==
  /\ ~isQuitting
  /\ breakBroadcastInterval' = FALSE
  /\ orphans' = orphans + Len(Live(breakOverlayWindows))
  /\ breakOverlayWindows' = <<>>
  /\ isQuitting' = TRUE
  /\ sent' = {}
  /\ overlayOp' = "beforeQuit"
  /\ UNCHANGED <<displays, isBreakActive, currentBreakDuration, breakStartTime,
                 pendingHides, now>>
  /\ UNCHANGED events
  /\ UNCHANGED staleBroadcastIntervals
  /\ UNCHANGED notOverlayVars

\* Time passes during a break.  (No handler reads the clock outside a break:
\* showBreakOverlay stores Date.now() and getRemainingBreakTime reads it only
\* while isBreakActive.)
AdvanceClock ==
  /\ isBreakActive
  /\ now < ClockStepMs * (MaxClockSteps + 1)
  /\ now' = now + ClockStepMs
  /\ sent' = {}
  /\ overlayOp' = "clock"
  /\ UNCHANGED <<displays, breakOverlayWindows, orphans, isBreakActive,
                 currentBreakDuration, breakStartTime, breakBroadcastInterval,
                 pendingHides, isQuitting>>
  /\ UNCHANGED events
  /\ UNCHANGED staleBroadcastIntervals
  /\ UNCHANGED notOverlayVars

\* The meeting gate while another part is looked at alone.
GateIdle ==
  /\ skipBreaksDuringMeetings = TRUE
  /\ meeting = FALSE
  /\ pendingBreakDuration = <<>>
  /\ showCalls = <<>>
  /\ recheckTimers = 0
  /\ recheckCalls = 0
  /\ breakTimer = [active |-> FALSE, remaining |-> 0]
  /\ jsQueue = <<>>
  /\ strayTimers = 0

Init == TimerInit /\ OverlayIdle /\ GateIdle /\ DetectorIdle

Next ==
  \/ Start
  \/ DelayedStart
  \/ Pause
  \/ Reset
  \/ Tick(FALSE)
  \/ Tick(TRUE)
  \/ SkipBreak
  \/ SnoozeBreak

Spec == Init /\ [][Next]_vars

\* The start of a phase: not running, the phase's whole duration remaining.
PhaseStart(settings, onBreak) ==
  [InitialTimerState(settings) EXCEPT
     !.isOnBreak = onBreak,
     !.timeRemaining = PhaseDuration(onBreak, settings)]

\* The service is constructed while the store holds the start of either
\* phase.  (The completing tick stores the state it was given over what
\* handleTimerComplete() wrote, so no operation of the service leads from
\* the fresh work phase into the break phase; what the operations do in
\* the break phase is looked at from here.)
PhaseInit ==
  /\ timerSettings \in [workDuration : 1..MaxWorkDuration,
                        breakDuration : 1..MaxBreakDuration,
                        longBreakDuration : {MaxBreakDuration + 1},
                        longBreakInterval : 1..MaxLongBreakInterval]
  /\ \E onBreak \in BOOLEAN : timerState = PhaseStart(timerSettings, onBreak)
  /\ intervalActive = FALSE
  /\ leakedIntervals = 0
  /\ pendingStarts = 0
  /\ timerOp = "init"
  /\ runTicks = -1
  /\ runCycle0 = 0
  /\ stateBefore = timerState

PhaseSpecInit == PhaseInit /\ OverlayIdle /\ GateIdle /\ DetectorIdle

PhaseSpec == PhaseSpecInit /\ [][Next]_vars

\* The timer while the overlay fleet is looked at alone.
TimerIdle ==
  /\ timerSettings = [workDuration |-> 1, breakDuration |-> 1,
                      longBreakDuration |-> 2, longBreakInterval |-> 1]
  /\ timerState = InitialTimerState(timerSettings)
  /\ intervalActive = FALSE
  /\ leakedIntervals = 0
  /\ pendingStarts = 0
  /\ timerOp = "init"
  /\ runTicks = -1
  /\ runCycle0 = 0
  /\ stateBefore = timerState

OverlaySpecInit == OverlayInit /\ TimerIdle /\ GateIdle /\ DetectorIdle

OverlaySpecNext ==
  \/ \E b \in BOOLEAN, d \in OverlayDurations : TimerComplete(b, d)
  \/ \E c \in {"break:skipped", "break:snoozed"} : BreakSkipOrSnooze(c)
  \/ BroadcastBreakTimer
  \/ DelayedHide
  \/ \E k \in 1..MaxWindows : DidFinishLoad(k)
  \/ \E k \in 1..MaxWindows : ReadyToShow(k)
  \/ \E k \in 1..MaxWindows : WindowClosed(k)
  \/ OrphanClosed
  \/ \E pos \in Positions, k \in 1..MaxDisplays : DisplayAdded(pos, k)
  \/ \E k \in 1..MaxDisplays : DisplayRemoved(k)
  \/ BeforeQuit
  \/ AdvanceClock

OverlaySpec == OverlaySpecInit /\ [][OverlaySpecNext]_vars
(***************************************************************************)
(* Meeting gate and asynchronous overlay fleet, src/unnamed/part_000       *)
(* (third revision, lines 981-1793).  The main window is taken to exist    *)
(* throughout.  The renderer's breakTimerManager is not in the source: it  *)
(* is modelled by what its method names say.                               *)
(***************************************************************************)
\* The break durations (seconds) the timer:complete handler of this revision
\* reads from the store.
GateDurations == {1, 2}

\* null, and a number that is not null
Null == <<>>
Some(d) == <<d>>

\* The number a duration stands for once it is in the script text sent to
\* the renderer, startBreakTimer(${duration}): null counts as 0.
DurationValue(opt) == IF opt = Null THEN 0 ELSE opt[1]

\* new BrowserWindow(...) as in part_001, with what this revision hangs on a
\* window:
\*   loadListeners: once('did-finish-load') listeners of showBreakOverlay,
\*                  each with the remaining time it captured
\*   seedListeners: the once('did-finish-load') listener of display-added,
\*                  with the remaining time it captured
\*   settleTimers:  setTimeout(sendStartMessage, 150) not yet run
\*   showTimers:    setTimeout(show/focus/fullscreen, 100) not yet run
\*   started:       history, break:start has been sent to the window
AsyncNewWindow(b, withClosedHandler) ==
  [status |-> "open", bounds |-> b, loading |-> TRUE, visible |-> FALSE,
   closedHandler |-> withClosedHandler, readyHandler |-> FALSE,
   loadListeners |-> <<>>, seedListeners |-> <<>>, settleTimers |-> <<>>,
   showTimers |-> 0, started |-> FALSE]

\* What is left of a window once it is destroyed: its place in the array and
\* the timers that still refer to it.
AsyncDestroyed(w) ==
  [w EXCEPT !.status = "destroyed", !.loading = FALSE, !.visible = FALSE,
            !.closedHandler = FALSE, !.readyHandler = FALSE,
            !.loadListeners = <<>>, !.seedListeners = <<>>]

\* An executeJavaScript request: the script, its argument, the window and
\* the channel its .then closes over.
Req(op, arg, wins, chan) == [op |-> op, arg |-> arg, wins |-> wins, chan |-> chan]

\* Windows that exist: those of the array, those closing outside it and those
\* display-added has made but not pushed yet.
AsyncWindowCount ==
  Len(breakOverlayWindows) + orphans
    + Cardinality({i \in DOMAIN jsQueue : Len(jsQueue[i].wins) > 0})

\* createBreakOverlays(): one window per display, each with a 'closed'
\* handler (its 'ready-to-show' handler only logs).
AsyncCreateBreakOverlays(ds) == [k \in DOMAIN ds |-> AsyncNewWindow(ds[k], TRUE)]

\* showBreakOverlay never postponing.
PostponeNever(inMeeting) == FALSE

\* if (inMeeting): the break is postponed.
Postpone(inMeeting) == inMeeting

\* checkAndShowPendingBreak never showing.
RecheckNever(inMeeting) == FALSE

\* if (!inMeeting) of checkAndShowPendingBreak: the pending break is shown.
RecheckShows(inMeeting) == ~inMeeting

\* showBreakOverlay past the meeting check: the pending break is cleared,
\* startBreakTimer(duration) is sent to the renderer, windows are made if the
\* array is empty, the remaining time is asked for and the broadcast interval
\* is set.
AsyncShowBody(d) ==
  /\ Len(jsQueue) + 2 <= MaxInFlight
  /\ Len(breakOverlayWindows) = 0 =>
       AsyncWindowCount + Len(displays) <= MaxWindows
  /\ pendingBreakDuration' = Null
  /\ jsQueue' = jsQueue \o <<Req("startBreakTimer", DurationValue(d), <<>>, ""),
                             Req("getRemaining:show", DurationValue(d), <<>>, "")>>
  /\ breakOverlayWindows' =
       IF Len(breakOverlayWindows) = 0 THEN AsyncCreateBreakOverlays(displays)
                                       ELSE breakOverlayWindows
  /\ breakBroadcastInterval' = TRUE

\* showBreakOverlay(d) waiting for isInMeeting() whatever the setting is.
AsyncShowBreakOverlayAlwaysAsks(d, viaRecheck, pendingNow) ==
  /\ Len(showCalls) < MaxCalls
  /\ showCalls' = Append(showCalls, [duration |-> d, viaRecheck |-> viaRecheck])
  /\ pendingBreakDuration' = pendingNow
  /\ UNCHANGED <<jsQueue, breakOverlayWindows, breakBroadcastInterval>>

\* A call of showBreakOverlay(d): with skipBreaksDuringMeetings it stops at
\* await isInMeeting(); without, it runs to its end.  pendingNow is what
\* pendingBreakDuration holds when the call is made.
AsyncShowBreakOverlay(d, viaRecheck, pendingNow) ==
  IF skipBreaksDuringMeetings
    THEN /\ Len(showCalls) < MaxCalls
         /\ showCalls' = Append(showCalls, [duration |-> d, viaRecheck |-> viaRecheck])
         /\ pendingBreakDuration' = pendingNow
         /\ UNCHANGED <<jsQueue, breakOverlayWindows, breakBroadcastInterval>>
    ELSE /\ AsyncShowBody(d)
         /\ UNCHANGED showCalls

\* sendStartMessage(): break:start is sent and showWindow() sets its timer.
SendStart(w) == [w EXCEPT !.started = TRUE, !.showTimers = @ + 1]

\* The forEach body of showBreakOverlay's .then on one window: a window
\* that is loading gets a did-finish-load listener, another is sent
\* break:start at once.
StartOrWait(w, r) ==
  IF w.loading THEN [w EXCEPT !.loadListeners = Append(@, r)] ELSE SendStart(w)

\* The forEach of showBreakOverlay's .then; webContents of a destroyed window
\* raises and ends it (the .catch logs).
ShowThen(fleet, r) ==
  LET bad == FirstDestroyed(fleet)
  IN [k \in DOMAIN fleet |-> IF k < bad THEN StartOrWait(fleet[k], r) ELSE fleet[k]]

\* The break:timer-update messages of one broadcast.
Updates(fleet, r) ==
  {Msg("break:timer-update", k, r) :
     k \in {j \in DOMAIN fleet : ~IsDestroyed(fleet[j]) /\ ~fleet[j].loading}}

\* The oldest request is of this kind: the renderer answers it next.
Answering(op) == Len(jsQueue) > 0 /\ Head(jsQueue).op = op

\* The state before the first event: the primary display alone or with a
\* second one to its right, the setting on or off, a meeting going on or not.
GateInit ==
  /\ displays = <<Origin>>
  /\ breakOverlayWindows = <<>>
  /\ orphans = 0
  /\ isBreakActive = FALSE
  /\ currentBreakDuration = 0
  /\ breakStartTime = 0
  /\ breakBroadcastInterval = FALSE
  /\ staleBroadcastIntervals = 0
  /\ pendingHides = 0
  /\ now = ClockStepMs
  /\ sent = {}
  /\ isQuitting = FALSE
  /\ events = 0
  /\ overlayOp = "init"
  /\ skipBreaksDuringMeetings \in BOOLEAN
  /\ meeting \in BOOLEAN
  /\ pendingBreakDuration = Null
  /\ showCalls = <<>>
  /\ recheckTimers = 0
  /\ recheckCalls = 0
  /\ breakTimer = [active |-> FALSE, remaining |-> 0]
  /\ jsQueue = <<>>
  /\ strayTimers = 0

\* ipcMain.on('timer:complete'): showBreakOverlay(breakDuration) is called, or
\* hideBreakOverlay(), which asks the renderer whether a break is active.
AsyncTimerComplete(isOnBreak, d) ==
  /\ ~isQuitting
  /\ events < MaxEvents
  /\ events' = events + 1
  /\ IF isOnBreak
       THEN /\ AsyncShowBreakOverlay(Some(d), FALSE, pendingBreakDuration)
            /\ overlayOp' = IF skipBreaksDuringMeetings THEN "showCalled" ELSE "shown"
       ELSE /\ Len(jsQueue) < MaxInFlight
            /\ jsQueue' = Append(jsQueue, Req("isActive:hide", 0, <<>>, ""))
            /\ overlayOp' = "hideCalled"
            /\ UNCHANGED <<pendingBreakDuration, showCalls, breakOverlayWindows,
                           breakBroadcastInterval>>
  /\ sent' = {}
  /\ UNCHANGED <<displays, orphans, pendingHides, isQuitting,
                 skipBreaksDuringMeetings, meeting, recheckTimers,
                 recheckCalls, breakTimer, strayTimers>>
  /\ UNCHANGED notGateVars

\* showBreakOverlay keeping a break that is already pending when it postpones
\* another.
ShowResumesKeepsPending(i) ==
  /\ i \in DOMAIN showCalls
  /\ showCalls' = RemoveAt(showCalls, i)
  /\ IF Postpone(meeting)
       THEN /\ recheckTimers < MaxRecheckTimers
            /\ pendingBreakDuration' = IF pendingBreakDuration = Null
                                         THEN showCalls[i].duration
                                         ELSE pendingBreakDuration
            /\ recheckTimers' = recheckTimers + 1
            /\ overlayOp' = "postponed"
            /\ UNCHANGED <<jsQueue, breakOverlayWindows, breakBroadcastInterval>>
       ELSE /\ AsyncShowBody(showCalls[i].duration)
            /\ overlayOp' = IF showCalls[i].viaRecheck THEN "pendingShown" ELSE "shown"
            /\ UNCHANGED recheckTimers
  /\ sent' = {}
  /\ UNCHANGED <<displays, orphans, pendingHides, isQuitting, events,
                 skipBreaksDuringMeetings, meeting, recheckCalls,
                 breakTimer, strayTimers>>
  /\ UNCHANGED notGateVars

\* A showBreakOverlay call goes on after await isInMeeting(): in a meeting the
\* break is postponed (pendingBreakDuration, a notification, a recheck in
\* 30 s); otherwise the break is shown.
ShowResumes(i) ==
  /\ i \in DOMAIN showCalls
  /\ showCalls' = RemoveAt(showCalls, i)
  /\ IF Postpone(meeting)
       THEN /\ recheckTimers < MaxRecheckTimers
            /\ pendingBreakDuration' = showCalls[i].duration
            /\ recheckTimers' = recheckTimers + 1
            /\ overlayOp' = "postponed"
            /\ UNCHANGED <<jsQueue, breakOverlayWindows, breakBroadcastInterval>>
       ELSE /\ AsyncShowBody(showCalls[i].duration)
            /\ overlayOp' = IF showCalls[i].viaRecheck THEN "pendingShown" ELSE "shown"
            /\ UNCHANGED recheckTimers
  /\ sent' = {}
  /\ UNCHANGED <<displays, orphans, pendingHides, isQuitting, events,
                 skipBreaksDuringMeetings, meeting, recheckCalls,
                 breakTimer, strayTimers>>
  /\ UNCHANGED notGateVars

\* checkAndShowPendingBreak asking isInMeeting() without looking at
\* pendingBreakDuration.
RecheckFiresUnguarded ==
  /\ recheckTimers > 0
  /\ recheckTimers' = recheckTimers - 1
  /\ recheckCalls < MaxCalls
  /\ recheckCalls' = recheckCalls + 1
  /\ overlayOp' = "recheckCalled"
  /\ sent' = {}
  /\ UNCHANGED <<displays, breakOverlayWindows, orphans,
                 breakBroadcastInterval, pendingHides, isQuitting, events,
                 skipBreaksDuringMeetings, meeting, pendingBreakDuration,
                 showCalls, breakTimer, jsQueue, strayTimers>>
  /\ UNCHANGED notGateVars

\* setTimeout(checkAndShowPendingBreak, 30000) runs: without a pending break
\* it returns, with one it waits for isInMeeting().
RecheckFires ==
  /\ recheckTimers > 0
  /\ recheckTimers' = recheckTimers - 1
  /\ IF pendingBreakDuration = Null
       THEN /\ UNCHANGED recheckCalls
            /\ overlayOp' = "recheckNothing"
       ELSE /\ recheckCalls < MaxCalls
            /\ recheckCalls' = recheckCalls + 1
            /\ overlayOp' = "recheckCalled"
  /\ sent' = {}
  /\ UNCHANGED <<displays, breakOverlayWindows, orphans,
                 breakBroadcastInterval, pendingHides, isQuitting, events,
                 skipBreaksDuringMeetings, meeting, pendingBreakDuration,
                 showCalls, breakTimer, jsQueue, strayTimers>>
  /\ UNCHANGED notGateVars

\* checkAndShowPendingBreak giving up when the meeting is still on: no further
\* recheck is set.
RecheckResumesGivesUp ==
  /\ recheckCalls > 0
  /\ recheckCalls' = recheckCalls - 1
  /\ IF RecheckShows(meeting)
       THEN /\ AsyncShowBreakOverlay(pendingBreakDuration, TRUE, Null)
            /\ overlayOp' = "recheckShows"
            /\ UNCHANGED recheckTimers
       ELSE /\ overlayOp' = "recheckAgain"
            /\ UNCHANGED <<recheckTimers, pendingBreakDuration, showCalls,
                           jsQueue, breakOverlayWindows,
                           breakBroadcastInterval>>
  /\ sent' = {}
  /\ UNCHANGED <<displays, orphans, pendingHides, isQuitting, events,
                 skipBreaksDuringMeetings, meeting, breakTimer,
                 strayTimers>>
  /\ UNCHANGED notGateVars

\* checkAndShowPendingBreak goes on after await isInMeeting(): out of the
\* meeting it reads pendingBreakDuration, clears it and calls
\* showBreakOverlay; in the meeting it sets the next recheck.
RecheckResumes ==
  /\ recheckCalls > 0
  /\ recheckCalls' = recheckCalls - 1
  /\ IF RecheckShows(meeting)
       THEN /\ AsyncShowBreakOverlay(pendingBreakDuration, TRUE, Null)
            /\ overlayOp' = "recheckShows"
            /\ UNCHANGED recheckTimers
       ELSE /\ recheckTimers < MaxRecheckTimers
            /\ recheckTimers' = recheckTimers + 1
            /\ overlayOp' = "recheckAgain"
            /\ UNCHANGED <<pendingBreakDuration, showCalls, jsQueue,
                           breakOverlayWindows, breakBroadcastInterval>>
  /\ sent' = {}
  /\ UNCHANGED <<displays, orphans, pendingHides, isQuitting, events,
                 skipBreaksDuringMeetings, meeting, breakTimer,
                 strayTimers>>
  /\ UNCHANGED notGateVars

\* The 100 ms interval runs broadcastBreakTimer(): the remaining time is
\* asked for.
BroadcastTick ==
  /\ breakBroadcastInterval
  /\ Len(jsQueue) < MaxInFlight
  /\ jsQueue' = Append(jsQueue, Req("getRemaining:broadcast", 0, <<>>, ""))
  /\ sent' = {}
  /\ overlayOp' = "broadcastTick"
  /\ UNCHANGED <<displays, breakOverlayWindows, orphans,
                 breakBroadcastInterval, pendingHides, isQuitting, events,
                 skipBreaksDuringMeetings, meeting, pendingBreakDuration,
                 showCalls, recheckTimers, recheckCalls, breakTimer,
                 strayTimers>>
  /\ UNCHANGED notGateVars

\* The renderer runs breakTimerManager.startBreakTimer(duration).
StartBreakTimerRuns ==
  /\ Answering("startBreakTimer")
  /\ breakTimer' = [active |-> TRUE, remaining |-> Head(jsQueue).arg]
  /\ jsQueue' = Tail(jsQueue)
  /\ sent' = {}
  /\ overlayOp' = "timerStarted"
  /\ UNCHANGED <<displays, breakOverlayWindows, orphans,
                 breakBroadcastInterval, pendingHides, isQuitting, events,
                 skipBreaksDuringMeetings, meeting, pendingBreakDuration,
                 showCalls, recheckTimers, recheckCalls, strayTimers>>
  /\ UNCHANGED notGateVars

\* showBreakOverlay's getBreakTimeRemaining() || duration is answered and its
\* .then goes through the array.
ShowRemainingResolves ==
  /\ Answering("getRemaining:show")
  /\ \A k \in DOMAIN breakOverlayWindows :
       /\ Len(breakOverlayWindows[k].loadListeners) < MaxListeners
       /\ breakOverlayWindows[k].showTimers < MaxListeners
  /\ LET r == IF breakTimer.remaining = 0 THEN Head(jsQueue).arg
                                          ELSE breakTimer.remaining
         bad == FirstDestroyed(breakOverlayWindows)
     IN /\ breakOverlayWindows' = ShowThen(breakOverlayWindows, r)
        /\ sent' = {Msg("break:start", k, r) :
                      k \in {j \in 1..(bad - 1) : ~breakOverlayWindows[j].loading}}
        /\ overlayOp' = IF bad <= Len(breakOverlayWindows) THEN "showRaised"
                                                           ELSE "showThen"
  /\ jsQueue' = Tail(jsQueue)
  /\ UNCHANGED <<displays, orphans, breakBroadcastInterval, pendingHides,
                 isQuitting, events, skipBreaksDuringMeetings, meeting,
                 pendingBreakDuration, showCalls, recheckTimers,
                 recheckCalls, breakTimer, strayTimers>>
  /\ UNCHANGED notGateVars

\* broadcastBreakTimer's getBreakTimeRemaining() || 0 is answered: every
\* window that is not destroyed and not loading is sent break:timer-update;
\* at zero the interval is cleared and hideBreakOverlay is set for 100 ms
\* later.
BroadcastResolves ==
  /\ Answering("getRemaining:broadcast")
  /\ breakTimer.remaining <= 0 => pendingHides < MaxInFlight
  /\ sent' = Updates(breakOverlayWindows, breakTimer.remaining)
  /\ IF breakTimer.remaining <= 0
       THEN /\ breakBroadcastInterval' = FALSE
            /\ pendingHides' = pendingHides + 1
       ELSE UNCHANGED <<breakBroadcastInterval, pendingHides>>
  /\ jsQueue' = Tail(jsQueue)
  /\ overlayOp' = "broadcast"
  /\ UNCHANGED <<displays, breakOverlayWindows, orphans, isQuitting,
                 events, skipBreaksDuringMeetings, meeting,
                 pendingBreakDuration, showCalls, recheckTimers,
                 recheckCalls, breakTimer, strayTimers>>
  /\ UNCHANGED notGateVars

\* hideBreakOverlay's isActive() is answered: without a break nothing; with
\* one stopBreakTimer() is sent, the interval cleared and every window that is
\* not destroyed hidden and closed.
HideIsActiveResolves ==
  /\ Answering("isActive:hide")
  /\ IF ~breakTimer.active
       THEN /\ jsQueue' = Tail(jsQueue)
            /\ overlayOp' = "hideSkipped"
            /\ UNCHANGED <<breakBroadcastInterval, breakOverlayWindows>>
       ELSE /\ jsQueue' = Append(Tail(jsQueue), Req("stopBreakTimer", 0, <<>>, ""))
            /\ breakBroadcastInterval' = FALSE
            /\ breakOverlayWindows' =
                 [k \in DOMAIN breakOverlayWindows |->
                    HideAndClose(breakOverlayWindows[k])]
            /\ overlayOp' = "hidden"
  /\ sent' = {}
  /\ UNCHANGED <<displays, orphans, pendingHides, isQuitting, events,
                 skipBreaksDuringMeetings, meeting, pendingBreakDuration,
                 showCalls, recheckTimers, recheckCalls, breakTimer,
                 strayTimers>>
  /\ UNCHANGED notGateVars

\* The renderer runs breakTimerManager.stopBreakTimer().
StopBreakTimerRuns ==
  /\ Answering("stopBreakTimer")
  /\ breakTimer' = [active |-> FALSE, remaining |-> 0]
  /\ jsQueue' = Tail(jsQueue)
  /\ sent' = {}
  /\ overlayOp' = "timerStopped"
  /\ UNCHANGED <<displays, breakOverlayWindows, orphans,
                 breakBroadcastInterval, pendingHides, isQuitting, events,
                 skipBreaksDuringMeetings, meeting, pendingBreakDuration,
                 showCalls, recheckTimers, recheckCalls, strayTimers>>
  /\ UNCHANGED notGateVars

\* The renderer runs timerService.completeBreak().
CompleteBreakRuns ==
  /\ Answering("completeBreak")
  /\ jsQueue' = Tail(jsQueue)
  /\ sent' = {}
  /\ overlayOp' = "completeBreak"
  /\ UNCHANGED <<displays, breakOverlayWindows, orphans,
                 breakBroadcastInterval, pendingHides, isQuitting, events,
                 skipBreaksDuringMeetings, meeting, pendingBreakDuration,
                 showCalls, recheckTimers, recheckCalls, breakTimer,
                 strayTimers>>
  /\ UNCHANGED notGateVars

\* ipcMain.on('break:skip') and ipcMain.on('break:snooze'): the renderer is
\* asked whether a break is active.
AsyncBreakSkipOrSnooze(channel) ==
  /\ ~isQuitting
  /\ events < MaxEvents
  /\ events' = events + 1
  /\ Len(jsQueue) < MaxInFlight
  /\ jsQueue' = Append(jsQueue, Req("isActive:skip", 0, <<>>, channel))
  /\ sent' = {}
  /\ overlayOp' = "skipOrSnoozeCalled"
  /\ UNCHANGED <<displays, breakOverlayWindows, orphans,
                 breakBroadcastInterval, pendingHides, isQuitting,
                 skipBreaksDuringMeetings, meeting, pendingBreakDuration,
                 showCalls, recheckTimers, recheckCalls, breakTimer,
                 strayTimers>>
  /\ UNCHANGED notGateVars

\* The isActive() of break:skip / break:snooze is answered: with a break,
\* hideBreakOverlay() is called and break:skipped / break:snoozed goes to the
\* main window.
SkipIsActiveResolves ==
  /\ Answering("isActive:skip")
  /\ IF breakTimer.active
       THEN /\ jsQueue' = Append(Tail(jsQueue), Req("isActive:hide", 0, <<>>, ""))
            /\ sent' = {Msg(Head(jsQueue).chan, MainWindow, 0)}
            /\ overlayOp' = "skipOrSnooze"
       ELSE /\ jsQueue' = Tail(jsQueue)
            /\ sent' = {}
            /\ overlayOp' = "ignored"
  /\ UNCHANGED <<displays, breakOverlayWindows, orphans,
                 breakBroadcastInterval, pendingHides, isQuitting, events,
                 skipBreaksDuringMeetings, meeting, pendingBreakDuration,
                 showCalls, recheckTimers, recheckCalls, breakTimer,
                 strayTimers>>
  /\ UNCHANGED notGateVars

\* The callback of broadcastBreakTimer's setTimeout(..., 100):
\* hideBreakOverlay(), then completeBreak() is sent to the renderer.
AsyncDelayedHide ==
  /\ pendingHides > 0
  /\ pendingHides' = pendingHides - 1
  /\ Len(jsQueue) + 2 <= MaxInFlight
  /\ jsQueue' = jsQueue \o <<Req("isActive:hide", 0, <<>>, ""),
                             Req("completeBreak", 0, <<>>, "")>>
  /\ sent' = {}
  /\ overlayOp' = "delayedHide"
  /\ UNCHANGED <<displays, breakOverlayWindows, orphans,
                 breakBroadcastInterval, isQuitting, events,
                 skipBreaksDuringMeetings, meeting, pendingBreakDuration,
                 showCalls, recheckTimers, recheckCalls, breakTimer,
                 strayTimers>>
  /\ UNCHANGED notGateVars

\* webContents 'did-finish-load' of the k-th window of the array: each
\* listener of showBreakOverlay sets its 150 ms timer, the listener of
\* display-added sends break:start with the time it captured.
AsyncDidFinishLoad(k) ==
  /\ k \in DOMAIN breakOverlayWindows
  /\ breakOverlayWindows[k].status \in {"open", "closing"}
  /\ breakOverlayWindows[k].loading
  /\ Len(breakOverlayWindows[k].settleTimers)
       + Len(breakOverlayWindows[k].loadListeners) <= MaxListeners
  /\ breakOverlayWindows' =
       [breakOverlayWindows EXCEPT
          ![k].loading = FALSE,
          ![k].settleTimers = @ \o breakOverlayWindows[k].loadListeners,
          ![k].loadListeners = <<>>,
          ![k].seedListeners = <<>>,
          ![k].started = @ \/ Len(breakOverlayWindows[k].seedListeners) > 0]
  /\ sent' = {Msg("break:start", k, r) :
                r \in Range(breakOverlayWindows[k].seedListeners)}
  /\ overlayOp' = "didFinishLoad"
  /\ UNCHANGED <<displays, orphans, breakBroadcastInterval, pendingHides,
                 isQuitting, events, skipBreaksDuringMeetings, meeting,
                 pendingBreakDuration, showCalls, recheckTimers,
                 recheckCalls, breakTimer, jsQueue, strayTimers>>
  /\ UNCHANGED notGateVars

\* 'did-finish-load' of a window display-added has made and not pushed yet:
\* no listener is registered.
DetachedDidFinishLoad(i) ==
  /\ i \in DOMAIN jsQueue
  /\ Len(jsQueue[i].wins) > 0
  /\ jsQueue[i].wins[1].loading
  /\ jsQueue' = [jsQueue EXCEPT ![i].wins[1].loading = FALSE]
  /\ sent' = {}
  /\ overlayOp' = "detachedLoaded"
  /\ UNCHANGED <<displays, breakOverlayWindows, orphans,
                 breakBroadcastInterval, pendingHides, isQuitting, events,
                 skipBreaksDuringMeetings, meeting, pendingBreakDuration,
                 showCalls, recheckTimers, recheckCalls, breakTimer,
                 strayTimers>>
  /\ UNCHANGED notGateVars

\* setTimeout(sendStartMessage, 150) of the k-th window runs: break:start
\* with the captured time, then showWindow(); webContents of a destroyed
\* window raises.
SettleTimerFires(k) ==
  /\ k \in DOMAIN breakOverlayWindows
  /\ Len(breakOverlayWindows[k].settleTimers) > 0
  /\ breakOverlayWindows[k].showTimers < MaxListeners
  /\ IF IsDestroyed(breakOverlayWindows[k])
       THEN /\ breakOverlayWindows' =
                 [breakOverlayWindows EXCEPT ![k].settleTimers = Tail(@)]
            /\ sent' = {}
            /\ overlayOp' = "startRaised"
       ELSE /\ breakOverlayWindows' =
                 [breakOverlayWindows EXCEPT
                    ![k] = SendStart([@ EXCEPT !.settleTimers = Tail(@)])]
            /\ sent' = {Msg("break:start", k,
                            Head(breakOverlayWindows[k].settleTimers))}
            /\ overlayOp' = "startSent"
  /\ UNCHANGED <<displays, orphans, breakBroadcastInterval, pendingHides,
                 isQuitting, events, skipBreaksDuringMeetings, meeting,
                 pendingBreakDuration, showCalls, recheckTimers,
                 recheckCalls, breakTimer, jsQueue, strayTimers>>
  /\ UNCHANGED notGateVars

\* showWindow's setTimeout(..., 100) of the k-th window runs: show(),
\* focus(), fullscreen; show() of a destroyed window raises.
ShowTimerFires(k) ==
  /\ k \in DOMAIN breakOverlayWindows
  /\ breakOverlayWindows[k].showTimers > 0
  /\ breakOverlayWindows' =
       [breakOverlayWindows EXCEPT
          ![k].showTimers = @ - 1,
          ![k].visible = ~IsDestroyed(breakOverlayWindows[k])]
  /\ sent' = {}
  /\ overlayOp' = IF IsDestroyed(breakOverlayWindows[k]) THEN "showWindowRaised"
                                                         ELSE "showWindow"
  /\ UNCHANGED <<displays, orphans, breakBroadcastInterval, pendingHides,
                 isQuitting, events, skipBreaksDuringMeetings, meeting,
                 pendingBreakDuration, showCalls, recheckTimers,
                 recheckCalls, breakTimer, jsQueue, strayTimers>>
  /\ UNCHANGED notGateVars

\* 'ready-to-show' of the k-th window, for a window of display-added:
\* show(), focus(), fullscreen.
AsyncReadyToShow(k) ==
  /\ k \in DOMAIN breakOverlayWindows
  /\ breakOverlayWindows[k].status \in {"open", "closing"}
  /\ breakOverlayWindows[k].readyHandler
  /\ breakOverlayWindows' = [breakOverlayWindows EXCEPT ![k].readyHandler = FALSE,
                                                        ![k].visible = TRUE]
  /\ sent' = {}
  /\ overlayOp' = "readyToShow"
  /\ UNCHANGED <<displays, orphans, breakBroadcastInterval, pendingHides,
                 isQuitting, events, skipBreaksDuringMeetings, meeting,
                 pendingBreakDuration, showCalls, recheckTimers,
                 recheckCalls, breakTimer, jsQueue, strayTimers>>
  /\ UNCHANGED notGateVars

\* The k-th window of the array, on which close() was called, is closed:
\* its 'closed' handler, if it has one, splices it out.  The setTimeout
\* callbacks of showBreakOverlay that hold the window stay scheduled.
AsyncWindowClosed(k) ==
  /\ k \in DOMAIN breakOverlayWindows
  /\ breakOverlayWindows[k].status = "closing"
  /\ breakOverlayWindows' =
       IF breakOverlayWindows[k].closedHandler
         THEN RemoveAt(breakOverlayWindows, k)
         ELSE [breakOverlayWindows EXCEPT ![k] = AsyncDestroyed(@)]
  /\ strayTimers' =
       IF breakOverlayWindows[k].closedHandler
         THEN strayTimers + Len(breakOverlayWindows[k].settleTimers)
                          + breakOverlayWindows[k].showTimers
         ELSE strayTimers
  /\ sent' = {}
  /\ overlayOp' = "closed"
  /\ UNCHANGED <<displays, orphans, breakBroadcastInterval, pendingHides,
                 isQuitting, events, skipBreaksDuringMeetings, meeting,
                 pendingBreakDuration, showCalls, recheckTimers,
                 recheckCalls, breakTimer, jsQueue>>
  /\ UNCHANGED notGateVars

\* A setTimeout callback of showBreakOverlay (sendStartMessage after 150 ms,
\* or show/focus/fullscreen after 100 ms) runs for a window that was closed
\* and spliced out of the array: overlayWindow.webContents, or
\* overlayWindow.show(), of the destroyed window raises.
StrayTimerFires ==
  /\ strayTimers > 0
  /\ strayTimers' = strayTimers - 1
  /\ sent' = {}
  /\ overlayOp' = "strayTimerRaised"
  /\ UNCHANGED <<displays, breakOverlayWindows, orphans,
                 breakBroadcastInterval, pendingHides, isQuitting, events,
                 skipBreaksDuringMeetings, meeting, pendingBreakDuration,
                 showCalls, recheckTimers, recheckCalls, breakTimer,
                 jsQueue>>
  /\ UNCHANGED notGateVars

\* A closing window the array no longer holds is closed.
AsyncOrphanClosed ==
  /\ orphans > 0
  /\ orphans' = orphans - 1
  /\ sent' = {}
  /\ overlayOp' = "orphanClosed"
  /\ UNCHANGED <<displays, breakOverlayWindows, breakBroadcastInterval,
                 pendingHides, isQuitting, events,
                 skipBreaksDuringMeetings, meeting, pendingBreakDuration,
                 showCalls, recheckTimers, recheckCalls, breakTimer,
                 jsQueue, strayTimers>>
  /\ UNCHANGED notGateVars

\* A display is connected and screen.on('display-added') runs: the renderer
\* is asked whether a break is active.
AsyncDisplayAdded(pos, k) ==
  /\ ~isQuitting
  /\ events < MaxEvents
  /\ events' = events + 1
  /\ Len(displays) < MaxDisplays
  /\ pos \notin Range(displays)
  /\ k \in 1..(Len(displays) + 1)
  /\ displays' = InsertAt(displays, k, pos)
  /\ Len(jsQueue) < MaxInFlight
  /\ jsQueue' = Append(jsQueue, Req("isActive:added", 0, <<>>, ""))
  /\ sent' = {}
  /\ overlayOp' = "displayAddedCalled"
  /\ UNCHANGED <<breakOverlayWindows, orphans, breakBroadcastInterval,
                 pendingHides, isQuitting, skipBreaksDuringMeetings,
                 meeting, pendingBreakDuration, showCalls, recheckTimers,
                 recheckCalls, breakTimer, strayTimers>>
  /\ UNCHANGED notGateVars

\* display-added's isActive() is answered: with a break, a window is made at
\* the bounds of the last display and the remaining time is asked for.
AddedIsActiveResolves ==
  /\ Answering("isActive:added")
  /\ IF breakTimer.active
       THEN /\ AsyncWindowCount < MaxWindows
            /\ jsQueue' = Append(Tail(jsQueue),
                                 Req("getRemaining:added", 0,
                                     <<AsyncNewWindow(displays[Len(displays)], FALSE)>>,
                                     ""))
            /\ overlayOp' = "displayAddedWindow"
       ELSE /\ jsQueue' = Tail(jsQueue)
            /\ overlayOp' = "displayAddedNoBreak"
  /\ sent' = {}
  /\ UNCHANGED <<displays, breakOverlayWindows, orphans,
                 breakBroadcastInterval, pendingHides, isQuitting, events,
                 skipBreaksDuringMeetings, meeting, pendingBreakDuration,
                 showCalls, recheckTimers, recheckCalls, breakTimer,
                 strayTimers>>
  /\ UNCHANGED notGateVars

\* display-added's getBreakTimeRemaining() || 0 is answered: the window gets
\* its did-finish-load and ready-to-show listeners and is pushed.
AddedRemainingResolves ==
  /\ Answering("getRemaining:added")
  /\ breakOverlayWindows' =
       Append(breakOverlayWindows,
              [Head(jsQueue).wins[1] EXCEPT
                 !.seedListeners = <<breakTimer.remaining>>,
                 !.readyHandler = TRUE])
  /\ jsQueue' = Tail(jsQueue)
  /\ sent' = {}
  /\ overlayOp' = "displayAdded"
  /\ UNCHANGED <<displays, orphans, breakBroadcastInterval, pendingHides,
                 isQuitting, events, skipBreaksDuringMeetings, meeting,
                 pendingBreakDuration, showCalls, recheckTimers,
                 recheckCalls, breakTimer, strayTimers>>
  /\ UNCHANGED notGateVars

\* A display, not the primary one, is disconnected and
\* screen.on('display-removed') runs: the renderer is asked whether a break is
\* active.
AsyncDisplayRemoved(k) ==
  /\ ~isQuitting
  /\ events < MaxEvents
  /\ events' = events + 1
  /\ Len(displays) > 1
  /\ k \in DOMAIN displays
  /\ displays[k] # Origin
  /\ displays' = RemoveAt(displays, k)
  /\ Len(jsQueue) < MaxInFlight
  /\ jsQueue' = Append(jsQueue, Req("isActive:removed", 0, <<>>, ""))
  /\ sent' = {}
  /\ overlayOp' = "displayRemovedCalled"
  /\ UNCHANGED <<breakOverlayWindows, orphans, breakBroadcastInterval,
                 pendingHides, isQuitting, skipBreaksDuringMeetings,
                 meeting, pendingBreakDuration, showCalls, recheckTimers,
                 recheckCalls, breakTimer, strayTimers>>
  /\ UNCHANGED notGateVars

\* display-removed's isActive() is answered: with a break, the array keeps
\* the windows that are not destroyed and are valid; the others that are not
\* destroyed are hidden and closed.
RemovedIsActiveResolves ==
  /\ Answering("isActive:removed")
  /\ IF breakTimer.active
       THEN /\ breakOverlayWindows' = KeptOnRemoval(breakOverlayWindows, displays)
            /\ orphans' = orphans + Len(Live(breakOverlayWindows))
                                  - Len(breakOverlayWindows')
            /\ overlayOp' = "displayRemoved"
       ELSE /\ UNCHANGED <<breakOverlayWindows, orphans>>
            /\ overlayOp' = "displayRemovedNoBreak"
  /\ jsQueue' = Tail(jsQueue)
  /\ sent' = {}
  /\ UNCHANGED <<displays, breakBroadcastInterval, pendingHides,
                 isQuitting, events, skipBreaksDuringMeetings, meeting,
                 pendingBreakDuration, showCalls, recheckTimers,
                 recheckCalls, breakTimer, strayTimers>>
  /\ UNCHANGED notGateVars

\* app.on('before-quit'): the interval is cleared, every window of the array
\* that is not destroyed is closed, the array is emptied.
AsyncBeforeQuit ==
  /\ ~isQuitting
  /\ breakBroadcastInterval' = FALSE
  /\ orphans' = orphans + Len(Live(breakOverlayWindows))
  /\ breakOverlayWindows' = <<>>
  /\ isQuitting' = TRUE
  /\ sent' = {}
  /\ overlayOp' = "beforeQuit"
  /\ UNCHANGED <<displays, pendingHides, events, skipBreaksDuringMeetings,
                 meeting, pendingBreakDuration, showCalls, recheckTimers,
                 recheckCalls, breakTimer, jsQueue, strayTimers>>
  /\ UNCHANGED notGateVars

\* ipcMain.handle('store-set') with the key skipBreaksDuringMeetings: the
\* setting is written.
StoreSetSkipDuringMeetings(value) ==
  /\ ~isQuitting
  /\ value # skipBreaksDuringMeetings
  /\ skipBreaksDuringMeetings' = value
  /\ sent' = {}
  /\ overlayOp' = "storeSet"
  /\ UNCHANGED <<displays, breakOverlayWindows, orphans,
                 breakBroadcastInterval, pendingHides, isQuitting, events,
                 meeting, pendingBreakDuration, showCalls, recheckTimers,
                 recheckCalls, breakTimer, jsQueue, strayTimers>>
  /\ UNCHANGED notGateVars

\* A meeting starts or ends: what isInMeeting() resolves to changes.
MeetingChanges ==
  /\ meeting' = ~meeting
  /\ sent' = {}
  /\ overlayOp' = "meetingChanges"
  /\ UNCHANGED <<displays, breakOverlayWindows, orphans,
                 breakBroadcastInterval, pendingHides, isQuitting, events,
                 skipBreaksDuringMeetings, pendingBreakDuration, showCalls,
                 recheckTimers, recheckCalls, breakTimer, jsQueue,
                 strayTimers>>
  /\ UNCHANGED notGateVars

\* A second of the break passes in the renderer's breakTimerManager.
BreakTimerTick ==
  /\ breakTimer.active
  /\ breakTimer.remaining > 0
  /\ breakTimer' = [breakTimer EXCEPT !.remaining = @ - 1]
  /\ sent' = {}
  /\ overlayOp' = "breakTimerTick"
  /\ UNCHANGED <<displays, breakOverlayWindows, orphans,
                 breakBroadcastInterval, pendingHides, isQuitting, events,
                 skipBreaksDuringMeetings, meeting, pendingBreakDuration,
                 showCalls, recheckTimers, recheckCalls, jsQueue,
                 strayTimers>>
  /\ UNCHANGED notGateVars

GateSpecInit == GateInit /\ TimerIdle /\ DetectorIdle

GateSpecNext ==
  \/ \E b \in BOOLEAN, d \in GateDurations : AsyncTimerComplete(b, d)
  \/ \E i \in 1..MaxCalls : ShowResumes(i)
  \/ RecheckFires
  \/ RecheckResumes
  \/ BroadcastTick
  \/ StartBreakTimerRuns
  \/ ShowRemainingResolves
  \/ BroadcastResolves
  \/ HideIsActiveResolves
  \/ StopBreakTimerRuns
  \/ CompleteBreakRuns
  \/ \E c \in {"break:skipped", "break:snoozed"} : AsyncBreakSkipOrSnooze(c)
  \/ SkipIsActiveResolves
  \/ AsyncDelayedHide
  \/ \E k \in 1..MaxWindows : AsyncDidFinishLoad(k)
  \/ \E i \in 1..MaxInFlight : DetachedDidFinishLoad(i)
  \/ \E k \in 1..MaxWindows : SettleTimerFires(k)
  \/ \E k \in 1..MaxWindows : ShowTimerFires(k)
  \/ \E k \in 1..MaxWindows : AsyncReadyToShow(k)
  \/ \E k \in 1..MaxWindows : AsyncWindowClosed(k)
  \/ StrayTimerFires
  \/ AsyncOrphanClosed
  \/ \E pos \in Positions, k \in 1..MaxDisplays : AsyncDisplayAdded(pos, k)
  \/ AddedIsActiveResolves
  \/ AddedRemainingResolves
  \/ \E k \in 1..MaxDisplays : AsyncDisplayRemoved(k)
  \/ RemovedIsActiveResolves
  \/ AsyncBeforeQuit
  \/ \E value \in BOOLEAN : StoreSetSkipDuringMeetings(value)
  \/ MeetingChanges
  \/ BreakTimerTick

GateSpec == GateSpecInit /\ [][GateSpecNext]_vars
(***************************************************************************)
(* Meeting detection, src/unnamed/part_000 lines 1025-1115.  Strings are    *)
(* the strings of the source; stdout ends with the newline osascript       *)
(* prints.                                                                 *)
(***************************************************************************)
MEETING_APPS ==
  {"Microsoft Teams", "Microsoft Teams (work or school)", "Slack",
   "Google Chrome", "Safari", "Firefox", "Zoom.us", "zoom.us", "Webex",
   "Cisco Webex Meetings", "Discord", "Skype"}

MEETING_URL_PATTERNS ==
  {"meet.google.com", "teams.microsoft.com", "app.slack.com/huddle",
   "zoom.us/j/", "webex.com"}

\* String.prototype.includes
Includes(s, p) ==
  \E i \in 1..(Len(s) - Len(p) + 1) : SubSeq(s, i, i + Len(p) - 1) = p

\* String.prototype.trim
IsWhitespace(c) == c \in {" ", "\n", "\t", "\r"}

RECURSIVE TrimStart(_)
TrimStart(s) ==
  IF Len(s) > 0 /\ IsWhitespace(SubSeq(s, 1, 1))
    THEN TrimStart(SubSeq(s, 2, Len(s)))
    ELSE s

RECURSIVE TrimEnd(_)
TrimEnd(s) ==
  IF Len(s) > 0 /\ IsWhitespace(SubSeq(s, Len(s), Len(s)))
    THEN TrimEnd(SubSeq(s, 1, Len(s) - 1))
    ELSE s

Trim(s) == TrimEnd(TrimStart(s))

\* String.prototype.toLowerCase, on the letters the inputs hold
UpperCase == "ABCDEFGHIJKLMNOPQRSTUVWXYZ"
LowerCase == "abcdefghijklmnopqrstuvwxyz"

LowerChar(c) ==
  IF \E i \in 1..Len(UpperCase) : SubSeq(UpperCase, i, i) = c
    THEN LET i == CHOOSE i \in 1..Len(UpperCase) : SubSeq(UpperCase, i, i) = c
         IN SubSeq(LowerCase, i, i)
    ELSE c

RECURSIVE ToLowerCase(_)
ToLowerCase(s) ==
  IF Len(s) = 0 THEN s
  ELSE LowerChar(SubSeq(s, 1, 1)) \o ToLowerCase(SubSeq(s, 2, Len(s)))

\* isInMeeting() treating a browser whose title cannot be read as not in a
\* meeting.
IsInMeetingTitleErrorFalse(q) ==
  IF q.platform # "darwin" THEN FALSE
  ELSE IF q.screenAccess # "granted" THEN FALSE
  ELSE IF ~q.app.ok THEN FALSE
  ELSE LET activeApp == Trim(q.app.stdout)
       IN IF \E app \in MEETING_APPS : Includes(activeApp, app)
            THEN IF \/ Includes(activeApp, "Chrome")
                    \/ Includes(activeApp, "Safari")
                    \/ Includes(activeApp, "Firefox")
                   THEN IF ~q.title.ok
                          THEN FALSE
                          ELSE LET title == ToLowerCase(Trim(q.title.stdout))
                               IN \E pattern \in MEETING_URL_PATTERNS :
                                     Includes(title, pattern)
                   ELSE TRUE
            ELSE FALSE

\* isInMeeting(): what it resolves to, given what the system answers.  An
\* error of the first osascript is caught by the outer catch (false), an
\* error of the second by the inner one (true).
IsInMeeting(q) ==
  IF q.platform # "darwin" THEN FALSE
  ELSE IF q.screenAccess # "granted" THEN FALSE
  ELSE IF ~q.app.ok THEN FALSE
  ELSE LET activeApp == Trim(q.app.stdout)
       IN IF \E app \in MEETING_APPS : Includes(activeApp, app)
            THEN IF \/ Includes(activeApp, "Chrome")
                    \/ Includes(activeApp, "Safari")
                    \/ Includes(activeApp, "Firefox")
                   THEN IF ~q.title.ok
                          THEN TRUE
                          ELSE LET title == ToLowerCase(Trim(q.title.stdout))
                               IN \E pattern \in MEETING_URL_PATTERNS :
                                     Includes(title, pattern)
                   ELSE TRUE
            ELSE FALSE

\* The answers of the system the detector is run on.
Platforms == {"darwin", "win32", "linux"}
ScreenAccess == {"granted", "denied", "not-determined"}

\* Names of frontmost applications: dedicated meeting applications,
\* browsers, and others.
DedicatedAppNames ==
  {"Slack\n", "zoom.us\n", "Microsoft Teams (work or school)\n", "Discord\n"}
BrowserAppNames == {"Google Chrome\n", "Safari\n", "Firefox\n"}
OtherAppNames == {"Finder\n", "Terminal\n", "slack\n", "Chromium\n", "\n"}

\* Titles of front windows: with a meeting address, and without.
MeetingTitles ==
  {"Meet - meet.google.com/abc-defg-hij\n", "Launch Meeting - Zoom.us/j/123\n",
   "  WEBEX.COM  \n"}
OtherTitles == {"Inbox (3)\n", "zoom.us - Downloads\n", "\n"}

AppResults ==
  {ExecFailed} \cup
    {ExecPrinted(n) : n \in DedicatedAppNames \cup BrowserAppNames \cup OtherAppNames}
TitleResults ==
  {ExecFailed} \cup {ExecPrinted(t) : t \in MeetingTitles \cup OtherTitles}

Queries ==
  [platform : Platforms, screenAccess : ScreenAccess,
   app : AppResults, title : TitleResults]

\* A call of isInMeeting() resolves.
IsInMeetingResolves ==
  /\ detectorResult = <<>>
  /\ detectorResult' = <<IsInMeeting(detectorQuery)>>
  /\ UNCHANGED detectorQuery
  /\ UNCHANGED notDetectorVars

\* The next call of isInMeeting() is made, on a system in another state.
IsInMeetingCalled(q) ==
  /\ detectorResult # <<>>
  /\ detectorQuery' = q
  /\ detectorResult' = <<>>
  /\ UNCHANGED notDetectorVars

\* The first call is made on a Mac with screen access where osascript fails.
DetectorSpecInit == DetectorIdle /\ TimerIdle /\ OverlayIdle /\ GateIdle

DetectorSpecNext ==
  \/ IsInMeetingResolves
  \/ \E q \in Queries : IsInMeetingCalled(q)

DetectorSpec == DetectorSpecInit /\ [][DetectorSpecNext]_vars


(***************************************************************************)
(* Claims about TimerService (checked under Spec)                          *)
(***************************************************************************)

\* C1: in every reachable state of the timer, whatever the interleaving of
\* start, pause, reset, skipBreak, snoozeBreak, ticks and delayed restarts,
\* timeRemaining is at least 0.
C1_TimeRemainingNonNegative == timerState.timeRemaining >= 0

\* A tick has counted the timer down to zero.
C1_Witness == timerOp = "tick" /\ timerState.timeRemaining = 0

\* C2: a start() from the fresh work phase followed by exactly
\* workDuration*60 ticks ends in the break phase, with one more cycle counted
\* and breakDuration seconds remaining.
C2_BreakAfterWorkSeconds ==
  runTicks = WorkSeconds(timerSettings) =>
    /\ timerState.isOnBreak
    /\ timerState.cycleCount = runCycle0 + 1
    /\ timerState.timeRemaining = timerSettings.breakDuration

\* C3: a completion out of the work phase adds one to cycleCount and leaves
\* totalBreaksTaken alone; a completion out of the break phase adds one to
\* totalBreaksTaken and leaves cycleCount alone.
C3_CompletionCounters ==
  [][(timerState.timeRemaining = 0 /\ timerOp' \in {"completeToBreak", "completeToWork"}) =>
       IF timerState.isOnBreak
         THEN /\ timerState'.totalBreaksTaken = timerState.totalBreaksTaken + 1
              /\ timerState'.cycleCount = timerState.cycleCount
         ELSE /\ timerState'.cycleCount = timerState.cycleCount + 1
              /\ timerState'.totalBreaksTaken = timerState.totalBreaksTaken]_vars

(***************************************************************************)
(* Claims about the overlay fleet (checked under OverlaySpec)              *)
(***************************************************************************)

\* A call of showBreakOverlay is the step that has just been taken.
ShowStep == overlayOp' \in {"show", "showRaised"}

\* C7: showBreakOverlay with an empty fleet and n connected displays makes
\* exactly n windows, the k-th at the bounds of the k-th display; with a
\* fleet that is not empty it makes no window.
C7_ShowCreatesOnePerDisplay ==
  [][ShowStep =>
       IF Len(breakOverlayWindows) = 0
         THEN /\ Len(breakOverlayWindows') = Len(displays)
              /\ WindowCount' = WindowCount + Len(displays)
              /\ \A k \in DOMAIN displays :
                   /\ breakOverlayWindows'[k].bounds = displays[k]
                   /\ breakOverlayWindows'[k].status = "open"
         ELSE /\ Len(breakOverlayWindows') = Len(breakOverlayWindows)
              /\ WindowCount' = WindowCount
              /\ \A k \in DOMAIN breakOverlayWindows :
                   /\ breakOverlayWindows'[k].bounds = breakOverlayWindows[k].bounds
                   /\ breakOverlayWindows'[k].status = breakOverlayWindows[k].status
                   /\ breakOverlayWindows'[k].loading = breakOverlayWindows[k].loading]_vars

\* showBreakOverlay has just made one window for each of three displays.
C7_Witness ==
  /\ overlayOp = "show"
  /\ Len(displays) = 3
  /\ Len(breakOverlayWindows) = 3
  /\ \A k \in DOMAIN breakOverlayWindows :
       /\ breakOverlayWindows[k].bounds = displays[k]
       /\ breakOverlayWindows[k].loading
       /\ breakOverlayWindows[k].startListeners = 1

\* The fleet holds exactly one open window per display of ds, at its bounds,
\* and nothing else.
OnePerDisplay(fleet, ds) ==
  /\ Len(fleet) = Len(ds)
  /\ \A k \in DOMAIN fleet : fleet[k].status = "open"
  /\ \A d \in Range(ds) :
       Cardinality({k \in DOMAIN fleet : fleet[k].bounds = d}) = 1

\* C8: when a display is removed during a break whose fleet has one window
\* per display, the fleet after display-removed has exactly one window per
\* display still connected and none for the removed display, whatever the
\* arrangement of the displays.
C8_RemovalLeavesOnePerDisplay ==
  [][(/\ overlayOp' = "displayRemoved"
      /\ isBreakActive
      /\ OnePerDisplay(breakOverlayWindows, displays))
       => OnePerDisplay(breakOverlayWindows', displays')]_vars

C10_HiddenFleetIsEmpty ==
  (/\ ~isBreakActive
   /\ ~isQuitting
   /\ \A k \in DOMAIN breakOverlayWindows :
        breakOverlayWindows[k].status # "closing")
    => /\ ~breakBroadcastInterval
       /\ Len(breakOverlayWindows) = 0

(***************************************************************************)
(* Claims about the meeting gate and the asynchronous overlay fleet        *)
(* (checked under GateSpec)                                                *)
(***************************************************************************)

\* C4: whatever the order of load completion, settle delay and broadcast
\* ticks, no window is sent break:timer-update before it has been sent
\* break:start.
C4_NoUpdateBeforeStart ==
  \A m \in sent :
    m.chan = "break:timer-update" => breakOverlayWindows[m.to].started

\* C5: with skipBreaksDuringMeetings on, an empty fleet and isInMeeting()
\* resolving to true, showBreakOverlay(d) stores d in pendingBreakDuration,
\* makes no window, leaves the broadcast interval as it is and sends no
\* startBreakTimer to the renderer.
C5_MeetingPostponesBreak ==
  [][\A i \in DOMAIN showCalls :
       (/\ showCalls' = RemoveAt(showCalls, i)
        /\ skipBreaksDuringMeetings
        /\ meeting
        /\ Len(breakOverlayWindows) = 0)
         => /\ pendingBreakDuration' = showCalls[i].duration
            /\ breakOverlayWindows' = <<>>
            /\ AsyncWindowCount' = AsyncWindowCount
            /\ breakBroadcastInterval' = breakBroadcastInterval
            /\ jsQueue' = jsQueue
            /\ breakTimer' = breakTimer]_vars

\* A break of 1 second has just been postponed: it is pending, there is no
\* window, no broadcast interval and no break timer.
C5_Witness ==
  /\ overlayOp = "postponed"
  /\ meeting
  /\ pendingBreakDuration = Some(1)
  /\ Len(breakOverlayWindows) = 0
  /\ ~breakBroadcastInterval
  /\ ~breakTimer.active
  /\ jsQueue = <<>>

\* The step shows the break with duration d: the pending break is cleared,
\* startBreakTimer(d) and the question for the remaining time go to the
\* renderer, the broadcast interval is set and, the array being empty, one
\* window per display is made.
ShownWith(d) ==
  /\ pendingBreakDuration' = Null
  /\ jsQueue' = jsQueue \o <<Req("startBreakTimer", d[1], <<>>, ""),
                             Req("getRemaining:show", d[1], <<>>, "")>>
  /\ breakBroadcastInterval'
  /\ Len(breakOverlayWindows) = 0 =>
       /\ Len(breakOverlayWindows') = Len(displays)
       /\ \A k \in DOMAIN displays :
            /\ breakOverlayWindows'[k].bounds = displays[k]
            /\ breakOverlayWindows'[k].status = "open"

\* C6: with a break of d pending and isInMeeting() resolving to false from
\* then on, checkAndShowPendingBreak clears pendingBreakDuration and calls
\* showBreakOverlay(d), which shows the break with duration d.
C6_RecheckShowsPending ==
  [][/\ (recheckCalls' < recheckCalls /\ ~meeting /\ pendingBreakDuration # Null)
          => /\ pendingBreakDuration' = Null
             /\ IF skipBreaksDuringMeetings
                  THEN showCalls' = Append(showCalls,
                                           [duration |-> pendingBreakDuration,
                                            viaRecheck |-> TRUE])
                  ELSE ShownWith(pendingBreakDuration)
     /\ \A i \in DOMAIN showCalls :
          (/\ showCalls' = RemoveAt(showCalls, i)
           /\ showCalls[i].viaRecheck
           /\ showCalls[i].duration # Null
           /\ ~meeting)
            => ShownWith(showCalls[i].duration)]_vars

\* The meeting is over and the pending break of 1 second has just been
\* shown: one window per display, the interval set, startBreakTimer(1) on
\* its way.
C6_Witness ==
  /\ overlayOp = "pendingShown"
  /\ ~meeting
  /\ pendingBreakDuration = Null
  /\ breakBroadcastInterval
  /\ Len(breakOverlayWindows) = Len(displays)
  /\ Len(jsQueue) > 0
  /\ Head(jsQueue) = Req("startBreakTimer", 1, <<>>, "")

(***************************************************************************)
(* Claims about the operations of TimerService in either phase             *)
(* (checked under PhaseSpec)                                               *)
(***************************************************************************)

\* C14: skipBreak() called during a break, whatever timeRemaining is then,
\* leaves isOnBreak false, timeRemaining = workDuration*60, isRunning false,
\* totalBreaksTaken one more and cycleCount as it was.
C14_SkipBreakFromBreak ==
  (timerOp = "skipBreak" /\ stateBefore.isOnBreak) =>
    /\ ~timerState.isOnBreak
    /\ timerState.timeRemaining = WorkSeconds(timerSettings)
    /\ ~timerState.isRunning
    /\ timerState.totalBreaksTaken = stateBefore.totalBreaksTaken + 1
    /\ timerState.cycleCount = stateBefore.cycleCount

\* skipBreak() was called in a running break of 2 seconds with 1 second left.
C14_Witness ==
  /\ timerOp = "skipBreak"
  /\ stateBefore.isOnBreak
  /\ stateBefore.isRunning
  /\ timerSettings.breakDuration = 2
  /\ stateBefore.timeRemaining = 1
  /\ timerState.totalBreaksTaken = 1

\* C15: snoozeBreak() leaves the TimerState skipBreak() would leave, except
\* that totalBreaksTaken is as it was, and like skipBreak() it sets one
\* start() for 500 ms later and touches no interval.
C15_SnoozeIsSkipUncounted ==
  [][timerOp' = "snoozeBreak" =>
       /\ timerState' = [SkipBreakState(timerState, timerSettings) EXCEPT
                           !.totalBreaksTaken = timerState.totalBreaksTaken]
       /\ pendingStarts' = pendingStarts + 1
       /\ intervalActive' = intervalActive
       /\ leakedIntervals' = leakedIntervals]_vars

\* snoozeBreak() was called during a break that had counted no break yet.
C15_Witness ==
  /\ timerOp = "snoozeBreak"
  /\ stateBefore.isOnBreak
  /\ ~timerState.isOnBreak
  /\ timerState.timeRemaining = WorkSeconds(timerSettings)
  /\ timerState.totalBreaksTaken = 0
  /\ pendingStarts = 1

\* C16: the delayed start() that follows a break->work completion, a
\* skipBreak() or a snoozeBreak() leaves the timer running with a countdown
\* interval; a work->break completion leaves it not running, with no
\* interval and no start() set.
C16_AutoRestart ==
  [][/\ (timerOp \in {"completeToWork", "skipBreak", "snoozeBreak"}
          /\ timerOp' = "delayedStart")
           => (timerState'.isRunning /\ intervalActive')
     /\ timerOp' = "completeToBreak"
           => /\ ~timerState'.isRunning
              /\ ~intervalActive'
              /\ pendingStarts' = pendingStarts]_vars

\* C19: start() while isRunning is true leaves timerState as it is and sets
\* no interval.
C19_StartWhileRunning ==
  [][(timerOp' \in {"start", "delayedStart"} /\ timerState.isRunning) =>
       /\ timerState' = timerState
       /\ intervalActive' = intervalActive
       /\ leakedIntervals' = leakedIntervals]_vars

\* start() was called while the timer was running and counting down.
C19_Witness ==
  /\ timerOp = "start"
  /\ stateBefore.isRunning
  /\ timerState = stateBefore
  /\ intervalActive
  /\ timerState.timeRemaining < WorkSeconds(timerSettings)

\* C20: pause() sets isRunning to false and nothing else in timerState,
\* clears the interval, gives the same state when called twice, and no
\* countdown tick runs between it and the next start().
C20_PauseCancelsCountdown ==
  [][/\ timerOp' = "pause" =>
          /\ timerState' = [timerState EXCEPT !.isRunning = FALSE]
          /\ ~intervalActive'
          /\ PausedState(timerState') = timerState'
     /\ timerOp = "pause" =>
          timerOp' \notin {"tick", "completeToBreak", "completeToWork"}]_vars

(***************************************************************************)
(* More claims about the overlay fleet (checked under OverlaySpec)         *)
(***************************************************************************)

\* The handlers whose whole effect on the overlay state is one call of
\* hideBreakOverlay().
HideOps == {"hide", "hideSkipped", "delayedHide", "delayedHideSkipped"}

\* C11: hideBreakOverlay() leaves no break active; called when no break is
\* active, and so when called right after another call, it leaves the
\* break-active flag, the duration, the start time, the broadcast interval
\* and the fleet as they are.
C11_HideIdempotent ==
  [][overlayOp' \in HideOps =>
       /\ ~isBreakActive'
       /\ (~isBreakActive \/ overlayOp \in HideOps) =>
            /\ UNCHANGED <<isBreakActive, currentBreakDuration, breakStartTime,
                           breakBroadcastInterval>>
            /\ breakOverlayWindows' = breakOverlayWindows
            /\ orphans' = orphans]_vars

\* hideBreakOverlay() has run a second time while the windows the first
\* call closed, one per display, are still closing.
C11_Witness ==
  /\ overlayOp = "hideSkipped"
  /\ events = 2
  /\ ~isBreakActive
  /\ Len(breakOverlayWindows) = Len(displays)
  /\ Len(displays) >= 2
  /\ \A k \in DOMAIN breakOverlayWindows :
       breakOverlayWindows[k].status = "closing"

\* In part_001, where broadcastBreakTimer computes the remaining time
\* itself: every broadcast pass runs while the interval is set, and the pass
\* that finds no time remaining clears the interval and sets the teardown.
SyncBroadcastStopsAtZero ==
  [][overlayOp' = "broadcast" =>
       /\ breakBroadcastInterval
       /\ Remaining <= 0 => /\ ~breakBroadcastInterval'
                            /\ pendingHides' = pendingHides + 1]_vars

(***************************************************************************)
(* More claims about the asynchronous overlay fleet (checked under         *)
(* GateSpec)                                                               *)
(***************************************************************************)

\* C12: the broadcast pass that finds no time remaining clears the interval
\* and sets the teardown for 100 ms later, and it is the only pass that
\* finds no time remaining: none runs while the interval is already cleared
\* and a teardown is waiting.
C12_OnePassAtZero ==
  [][(overlayOp' = "broadcast" /\ breakTimer.remaining <= 0) =>
       /\ ~breakBroadcastInterval'
       /\ pendingHides' = pendingHides + 1
       /\ ~(pendingHides > 0 /\ ~breakBroadcastInterval)]_vars

\* C13: once hideBreakOverlay has torn the break down, or before-quit has
\* run, nothing of the break is left scheduled: the 100 ms broadcast interval
\* is cleared, no teardown of the 100 ms grace delay is waiting and no 30 s
\* recheck of a postponed break is waiting.
C13_NothingLeftScheduled ==
  (isQuitting \/ overlayOp = "hidden") =>
    /\ ~breakBroadcastInterval
    /\ pendingHides = 0
    /\ recheckTimers = 0

\* C17: nothing is sent to a destroyed window and no deferred show, focus or
\* fullscreen is made on one: no break:start, no delayed sendStartMessage and
\* no delayed showWindow finds its window destroyed, so none raises.
C17_NoUseOfDestroyedWindow ==
  overlayOp \notin {"showRaised", "startRaised", "showWindowRaised",
                    "strayTimerRaised"}

(***************************************************************************)
(* Skip and snooze without a break (checked under OverlaySpec)              *)
(***************************************************************************)

\* C18: break:skip or break:snooze arriving while no break is active changes
\* nothing of the overlay state and forwards no break:skipped or
\* break:snoozed to the main window.
C18_SkipWithoutBreakIgnored ==
  [][(overlayOp' \in {"skipOrSnooze", "ignored"} /\ ~isBreakActive) =>
       /\ sent' = {}
       /\ UNCHANGED <<isBreakActive, currentBreakDuration, breakStartTime,
                      breakBroadcastInterval, pendingHides>>
       /\ breakOverlayWindows' = breakOverlayWindows
       /\ orphans' = orphans]_vars

\* break:skip or break:snooze has arrived after the break was over, while
\* the windows of the fleet were still closing, and nothing was forwarded.
C18_Witness ==
  /\ overlayOp = "ignored"
  /\ ~isBreakActive
  /\ sent = {}
  /\ Len(breakOverlayWindows) >= 1
  /\ \A k \in DOMAIN breakOverlayWindows : breakOverlayWindows[k].status = "closing"

\* The third revision asks the renderer first: break:skip or break:snooze
\* answered with no break active forwards nothing and calls no hide.
AsyncSkipWithoutBreakIgnored ==
  [][(overlayOp' \in {"skipOrSnooze", "ignored"} /\ ~breakTimer.active) =>
       /\ sent' = {}
       /\ jsQueue' = Tail(jsQueue)
       /\ UNCHANGED <<breakOverlayWindows, orphans, breakBroadcastInterval,
                      pendingHides, breakTimer>>]_vars

(***************************************************************************)
(* reset() (checked under PhaseSpec)                                       *)
(***************************************************************************)

\* What reset() writes: isRunning false, timeRemaining the duration of the
\* phase the state is in, the other fields as they were.
ResetWritesPhaseDuration ==
  [][timerOp' = "reset" =>
       timerState' = [timerState EXCEPT
                        !.isRunning = FALSE,
                        !.timeRemaining = IF timerState.isOnBreak
                                            THEN timerSettings.breakDuration
                                            ELSE timerSettings.workDuration * SecondsPerMinute]]_vars

\* C21: reset(), from any state, leaves isRunning false and no countdown
\* interval alive, sets timeRemaining to breakDuration on a break and to
\* workDuration * 60 otherwise, and leaves isOnBreak, cycleCount and
\* totalBreaksTaken as they were.
C21_ResetEffect ==
  [][timerOp' = "reset" =>
       /\ ~timerState'.isRunning
       /\ ~intervalActive'
       /\ leakedIntervals' = 0
       /\ timerState'.timeRemaining = IF timerState.isOnBreak
                                        THEN timerSettings.breakDuration
                                        ELSE timerSettings.workDuration * SecondsPerMinute
       /\ timerState'.isOnBreak = timerState.isOnBreak
       /\ timerState'.cycleCount = timerState.cycleCount
       /\ timerState'.totalBreaksTaken = timerState.totalBreaksTaken]_vars

(***************************************************************************)
(* The meeting gate, continued (checked under GateSpec)                    *)
(***************************************************************************)

\* C22: with skipBreaksDuringMeetings off, timer:complete for a break shows
\* the break in the same step whether a meeting is on or not: no call waits
\* for isInMeeting(), pendingBreakDuration is null afterwards, no recheck is
\* set or started, startBreakTimer goes to the renderer, the array holds a
\* fleet and the broadcast interval is set.
C22_NoGateWhenSkipDisabled ==
  [][(/\ events' = events + 1
      /\ overlayOp' \in {"shown", "showCalled"}
      /\ ~skipBreaksDuringMeetings) =>
       /\ showCalls' = showCalls
       /\ pendingBreakDuration' = Null
       /\ recheckTimers' = recheckTimers
       /\ recheckCalls' = recheckCalls
       /\ Len(jsQueue') = Len(jsQueue) + 2
       /\ jsQueue'[Len(jsQueue) + 1].op = "startBreakTimer"
       /\ Len(breakOverlayWindows') > 0
       /\ breakBroadcastInterval']_vars

\* A break was postponed in a meeting, the setting was then turned off, and
\* the next break has just been shown with the meeting still on: the pending
\* break is gone, the recheck of the postponed break is still to run.
C22_Witness ==
  /\ overlayOp = "shown"
  /\ events = 2
  /\ ~skipBreaksDuringMeetings
  /\ meeting
  /\ pendingBreakDuration = Null
  /\ recheckTimers = 1
  /\ showCalls = <<>>
  /\ Len(breakOverlayWindows) = Len(displays)
  /\ breakBroadcastInterval

\* C23: a recheck that runs while pendingBreakDuration is null does nothing:
\* it asks for no meeting status, sets no further recheck, shows no break and
\* leaves the pending break, the fleet, the interval and the renderer alone.
C23_RecheckWithoutPendingIsNoOp ==
  [][(recheckTimers' = recheckTimers - 1 /\ pendingBreakDuration = Null) =>
       /\ recheckCalls' = recheckCalls
       /\ UNCHANGED <<pendingBreakDuration, showCalls, jsQueue, breakTimer,
                      breakOverlayWindows, orphans, breakBroadcastInterval,
                      pendingHides, strayTimers, displays, isQuitting>>]_vars

\* The recheck of a postponed break has run after the break was started by
\* another call: nothing is pending and the break is as it was.
C23_Witness ==
  /\ overlayOp = "recheckNothing"
  /\ pendingBreakDuration = Null
  /\ recheckTimers = 0
  /\ recheckCalls = 0
  /\ breakBroadcastInterval
  /\ Len(breakOverlayWindows) = Len(displays)

\* C24: pendingBreakDuration is null or one duration, and when a call of
\* showBreakOverlay(d) gets its meeting status, the pending break becomes d
\* in a meeting and null otherwise, whatever was pending before.
C24_RequestSupersedesPending ==
  [][/\ Len(pendingBreakDuration) <= 1
     /\ \A i \in DOMAIN showCalls :
          showCalls' = RemoveAt(showCalls, i) =>
             pendingBreakDuration' = IF meeting THEN showCalls[i].duration
                                                ELSE Null]_vars

\* A break of 2 seconds has been postponed while the recheck of an earlier
\* postponed break waits for its meeting status: the pending break is the
\* new one.
C24_Witness ==
  /\ overlayOp = "postponed"
  /\ events = 2
  /\ meeting
  /\ recheckCalls = 1
  /\ pendingBreakDuration = Some(2)

\* C25: while a break is pending, a recheck is set or waits for its meeting
\* status; and a recheck that gets the answer "in a meeting" leaves the
\* pending break as it is, makes no window, starts nothing in the renderer
\* and sets the next recheck, however many rechecks went before.
C25_PendingBreakIsRechecked ==
  [][/\ pendingBreakDuration' # Null => (recheckTimers' > 0 \/ recheckCalls' > 0)
     /\ (recheckCalls' = recheckCalls - 1 /\ meeting) =>
          /\ recheckTimers' = recheckTimers + 1
          /\ UNCHANGED <<pendingBreakDuration, showCalls, jsQueue, breakTimer,
                         breakOverlayWindows, orphans, breakBroadcastInterval>>
          /\ AsyncWindowCount' = AsyncWindowCount]_vars

\* A recheck has found the meeting still on: the break of 2 seconds is still
\* pending, there is no window and the next recheck is set.
C25_Witness ==
  /\ overlayOp = "recheckAgain"
  /\ meeting
  /\ pendingBreakDuration = Some(2)
  /\ recheckTimers = 1
  /\ recheckCalls = 0
  /\ Len(breakOverlayWindows) = 0
  /\ ~breakBroadcastInterval

(***************************************************************************)
(* Meeting detection (checked under DetectorSpec)                          *)
(***************************************************************************)

\* C26: isInMeeting() resolves to false off macOS, without screen access,
\* when the frontmost application cannot be asked for, and when it is not a
\* meeting application; to true for a dedicated meeting application; and for
\* a browser to true exactly when the title of the front window cannot be
\* read or holds a meeting address.
C26_IsInMeetingTable ==
  detectorResult # <<>> =>
    LET q == detectorQuery
        answer == detectorResult[1]
    IN IF \/ q.platform # "darwin"
          \/ q.screenAccess # "granted"
          \/ ~q.app.ok
          \/ q.app.stdout \in OtherAppNames
         THEN answer = FALSE
         ELSE IF q.app.stdout \in DedicatedAppNames
           THEN answer = TRUE
           ELSE /\ q.app.stdout \in BrowserAppNames
                /\ answer = (~q.title.ok \/ q.title.stdout \in MeetingTitles)

\* A browser is frontmost on a Mac with screen access and its title could
\* not be read: isInMeeting() has resolved to true.
C26_Witness ==
  /\ detectorResult = <<TRUE>>
  /\ detectorQuery.platform = "darwin"
  /\ detectorQuery.screenAccess = "granted"
  /\ detectorQuery.app = ExecPrinted("Safari\n")
  /\ detectorQuery.title = ExecFailed

(***************************************************************************)
(* The remaining time of a break (checked under OverlaySpec)               *)
(***************************************************************************)

\* The whole seconds left of a break of d seconds that started at start,
\* at time t: never less than 0.
WholeSecondsLeft(d, start, t) ==
  LET elapsed == (t - start) \div 1000
  IN IF d - elapsed > 0 THEN d - elapsed ELSE 0

\* C27: while a break is active, every break:timer-update of a broadcast
\* pass carries max(0, d - whole seconds since the break started), a value
\* from 0 to d; and as long as the break is the same one (same start, same
\* duration), the remaining time never goes up from one step to the next,
\* so not from one broadcast pass to the next either.
C27_BroadcastRemaining ==
  [][/\ (overlayOp' = "broadcast" /\ isBreakActive) =>
          \A msg \in sent' :
             /\ msg.chan = "break:timer-update"
             /\ msg.value = WholeSecondsLeft(currentBreakDuration, breakStartTime, now)
             /\ msg.value \in 0..currentBreakDuration
     /\ (/\ isBreakActive /\ isBreakActive'
         /\ breakStartTime' = breakStartTime
         /\ currentBreakDuration' = currentBreakDuration) =>
          Remaining' <= Remaining]_vars

\* A broadcast pass has run two seconds into a break of one second and has
\* sent 0 to a loaded window.
C27_Witness ==
  /\ overlayOp = "broadcast"
  /\ isBreakActive
  /\ currentBreakDuration = 1
  /\ now - breakStartTime >= 2000
  /\ \E msg \in sent : msg.chan = "break:timer-update" /\ msg.value = 0

(***************************************************************************)
(* Start messages of the asynchronous overlay fleet (checked under         *)
(* GateSpec)                                                               *)
(***************************************************************************)

\* C28: a window of the fleet is visible (show, focus, fullscreen) only once
\* break:start has been sent to it, whether showBreakOverlay made it or
\* display-added.
C28_StartBeforeVisible ==
  \A k \in DOMAIN breakOverlayWindows :
     breakOverlayWindows[k].visible => breakOverlayWindows[k].started

\* C29: once before-quit has run, the broadcast interval is cleared, the
\* array is empty and no overlay window is left open outside it (a window
\* display-added has made and not yet pushed).
C29_ShutdownClosesFleet ==
  isQuitting =>
    /\ ~breakBroadcastInterval
    /\ breakOverlayWindows = <<>>
    /\ \A i \in DOMAIN jsQueue : jsQueue[i].wins = <<>>

\* In part_001, where display-added makes and pushes its window in one step:
\* before-quit clears the interval, calls close() on every window of the
\* array that is not destroyed and empties the array, and they stay so.
SyncShutdownClosesFleet ==
  isQuitting => (~breakBroadcastInterval /\ breakOverlayWindows = <<>>)

\* C30: break:start is never sent to a window of the array that has been
\* sent break:start before: a window gets it once, whether it was loaded when
\* showBreakOverlay ran or loads later, and whether showBreakOverlay runs
\* again while the break is on.
C30_StartSentOncePerSurface ==
  [][\A msg \in sent' :
       (msg.chan = "break:start" /\ msg.to \in DOMAIN breakOverlayWindows)
         => ~breakOverlayWindows[msg.to].started]_vars

(***************************************************************************)
(* Claims about the countdown of TimerService (checked under Spec)         *)
(***************************************************************************)

\* C31: when the tick that finds timeRemaining at zero has returned, the
\* store holds what handleTimerComplete() wrote: isRunning false, isOnBreak
\* toggled, timeRemaining the duration of the new phase.
C31_CompletionWritesStay ==
  [][timerOp' \in {"completeToBreak", "completeToWork"} =>
       /\ ~timerState'.isRunning
       /\ timerState'.isOnBreak = ~timerState.isOnBreak
       /\ timerState'.timeRemaining =
            PhaseDuration(~timerState.isOnBreak, timerSettings)]_vars


\* The countdown intervals that are scheduled: the one this.intervalId
\* refers to and those it no longer refers to.
ActiveIntervals == (IF intervalActive THEN 1 ELSE 0) + leakedIntervals

\* C33: whatever the interleaving of start, pause, reset, skipBreak,
\* snoozeBreak, ticks and delayed restarts, at most one countdown interval
\* is scheduled.
C33_OneCountdown == ActiveIntervals <= 1

\* C34: between operations isRunning is true exactly when a countdown
\* interval is scheduled.
C34_RunningIffCountdown == timerState.isRunning <=> ActiveIntervals > 0

\* C35: the delayed start() that comes right after a pause() or a reset()
\* leaves the timer not running and sets no interval.
C35_PauseBeatsDelayedStart ==
  [][(timerOp \in {"pause", "reset"} /\ timerOp' = "delayedStart") =>
       /\ ~timerState'.isRunning
       /\ ~intervalActive']_vars

\* C36: no more breaks are counted as taken than work cycles are counted as
\* completed.
C36_BreaksWithinCycles ==
  timerState.totalBreaksTaken <= timerState.cycleCount


(***************************************************************************)
(* Claims about overlapping callbacks of the third revision (checked under *)
(* GateSpec)                                                               *)
(***************************************************************************)

\* C37: a checkAndShowPendingBreak call that gets the answer "not in a
\* meeting" finds the pending break it waited for: it never calls
\* showBreakOverlay with null, so a pending break is shown by one recheck
\* only.
C37_PendingConsumedOnce ==
  [][(recheckCalls' = recheckCalls - 1 /\ ~meeting) =>
       pendingBreakDuration # Null]_vars

\* C38: the pass that sets the teardown (hideBreakOverlay and completeBreak
\* 100 ms later) is the only one of its break: it runs while the broadcast
\* interval is set and no teardown is waiting (before-quit aside).
C38_OneTeardownPerBreak ==
  [][(pendingHides' = pendingHides + 1 /\ ~isQuitting) =>
       (breakBroadcastInterval /\ pendingHides = 0)]_vars


(***************************************************************************)
(* The broadcast interval of the synchronous revision (checked under       *)
(* OverlaySpec)                                                            *)
(***************************************************************************)

\* C39: no 100 ms interval is left set besides the one breakBroadcastInterval
\* refers to, and that one is set only while isBreakActive is true.
C39_OneBroadcastWhileActive ==
  /\ staleBroadcastIntervals = 0
  /\ breakBroadcastInterval => isBreakActive

\* showBreakOverlay has run while the interval of the break before was still
\* set: the interval is set, the break is active.
C39_Witness ==
  /\ overlayOp = "show"
  /\ events = 2
  /\ breakBroadcastInterval
  /\ isBreakActive
  /\ \E k \in DOMAIN breakOverlayWindows : breakOverlayWindows[k].startListeners = 2


(***************************************************************************)
(* The meeting gate under fair scheduling: the 30 s timers fire, the calls *)
(* waiting at await isInMeeting() go on, the renderer answers, the windows *)
(* finish loading and their timers run.  The gate is looked at alone: the  *)
(* break is not hidden, skipped or counted down and the application is not *)
(* quit.                                                                   *)
(***************************************************************************)
PendingSpecNext ==
  \/ \E d \in GateDurations : AsyncTimerComplete(TRUE, d)
  \/ \E i \in 1..MaxCalls : ShowResumes(i)
  \/ RecheckFires
  \/ RecheckResumes
  \/ StartBreakTimerRuns
  \/ ShowRemainingResolves
  \/ \E k \in 1..MaxWindows : AsyncDidFinishLoad(k)
  \/ \E k \in 1..MaxWindows : SettleTimerFires(k)
  \/ \E k \in 1..MaxWindows : ShowTimerFires(k)
  \/ \E value \in BOOLEAN : StoreSetSkipDuringMeetings(value)
  \/ MeetingChanges

PendingSpecFairness ==
  /\ WF_vars(RecheckFires)
  /\ WF_vars(RecheckResumes)
  /\ WF_vars(\E i \in 1..MaxCalls : ShowResumes(i))
  /\ WF_vars(StartBreakTimerRuns)
  /\ WF_vars(ShowRemainingResolves)
  /\ WF_vars(\E k \in 1..MaxWindows : AsyncDidFinishLoad(k))
  /\ WF_vars(\E k \in 1..MaxWindows : SettleTimerFires(k))
  /\ WF_vars(\E k \in 1..MaxWindows : ShowTimerFires(k))

PendingSpec == GateSpecInit /\ [][PendingSpecNext]_vars /\ PendingSpecFairness

\* The postponed break of d seconds has just been shown by its recheck:
\* startBreakTimer(d) is on its way to the renderer, there are overlay
\* windows and nothing is pending.
PendingShownWith(d) ==
  /\ \/ overlayOp = "pendingShown"
     \/ overlayOp = "recheckShows" /\ ~skipBreaksDuringMeetings
  /\ pendingBreakDuration = Null
  /\ Len(breakOverlayWindows) > 0
  /\ \E i \in DOMAIN jsQueue : jsQueue[i] = Req("startBreakTimer", d, <<>>, "")

=============================================================================
